---- MODULE Spec2Model ----
(***************************************************************************)
(* openclaw-smart-router: the optimization plan applier (ActionApplier),   *)
(* its rollback, and the callers that run plans against the cron job store *)
(* (cron/jobs.json) and the per-agent model store (agents/<id>/agent/      *)
(* models.json).                                                           *)
(***************************************************************************)
EXTENDS Integers, Sequences, FiniteSets, TLC

(***************************************************************************)
(* Bounds                                                                  *)
(***************************************************************************)
MaxJobs == 2
MaxFallbacks == 1
MaxPlan == 2
MaxRollbacks == 1
MaxRuns == 2
\* usage records delivered in one behaviour
MaxRecords == 3
\* signals of one keyword bucket found in a prompt
MaxHits == 3
\* MAX_USAGE_HISTORY, the size cap of state.usageHistory (10000 in the
\* source), scaled so that the ledger reaches and passes it
MAX_USAGE_HISTORY == 2
\* records in the history a prediction is made from
MaxHistory == 2

(***************************************************************************)
(* Values                                                                  *)
(***************************************************************************)
\* a field that is absent from a JavaScript object
Undef == "undefined"

JobIdSeq == <<"job1", "job2", "job3", "job4">>
AgentIds == {"agentA"}

\* the models plans move jobs and agents between
PlanModels == {"claude-sonnet-4-5", "claude-haiku-4-5"}
LocalModel == "local-llama"

StatusApplied == "applied"
StatusFailed == "failed"
StatusSkipped == "skipped"

\* outcome of the file system calls of one handler invocation
IoOutcomes == {"ok", "readFail", "writeFail"}

VARIABLES
    jobsExists,   \* existsSync(getCronJobsPath())
    jobs,         \* parsed content of cron/jobs.json: the array of jobs
    agents,       \* agent id -> content of agents/<id>/agent/models.json
    dryRun,       \* ActionApplier.dryRun of the running applier
    plan,         \* plan.actions handed to applyPlan
    idx,          \* number of plan actions the for loop has consumed
    results,      \* ActionApplier.applyPlan: results
    pc,           \* position of applyPlan: "idle", "applying", "done"
    snaps,        \* stores as they were before each executed plan action
    last,         \* the operation that produced the current state
    rollbacks,    \* number of rollback calls made on the results
    mode,         \* config.mode
    service,      \* the registered service: "registered", "started", "stopped"
    timerOn,      \* the setInterval of startAutoOptimization is installed
    runs,         \* run id -> an optimization run (timer callback or operator)
    lastOptimization,  \* state.lastOptimization.planId, 0 when unset
    savedOptimization,  \* lastOptimization as last written by saveState
    quotas,       \* state.quotas: provider -> QuotaCounter
    budgets,      \* state.budgets: provider -> budget spend
    usageHistory, \* state.usageHistory: the ledger of UsageRecords
    now,          \* Date.now(), in minutes
    ledger,       \* the ledger operation that produced the current state
    prediction,   \* the ExhaustionPrediction the last predict call returned
    notification, \* the threshold notification the last tracker operation raised
    resetCalc,    \* the last calculateNextReset call: schedule, instant, result
    average,      \* the last getAverageDailyUsage call: arguments and result
    classified,   \* the last classifyPrompt call: hit counts and TaskProfile
    registry,     \* ProviderRegistry.providers: provider -> RegisteredProvider
    matches,      \* the last findSuitableModels call: task and ModelMatch list
    cache,        \* CapabilityScorer.cache: provider/model -> scores
    capabilities  \* the last getCapabilities call: arguments and result

applierVars == <<dryRun, plan, idx, results, pc, snaps, last, rollbacks>>
serviceVars == <<mode, service, timerOn, runs, lastOptimization, savedOptimization>>
ledgerVars == <<quotas, budgets, usageHistory, now, ledger, prediction, notification>>
queryVars == <<average, classified, registry, matches, cache, capabilities>>
quotaVars == <<ledgerVars, resetCalc, queryVars>>
otherVars == <<jobsExists, jobs, agents, applierVars, serviceVars, resetCalc, queryVars>>
vars == <<jobsExists, jobs, agents, applierVars, serviceVars, ledgerVars, resetCalc, queryVars>>

(***************************************************************************)
(* Stores                                                                  *)
(***************************************************************************)
Store(je, js, ag) == [jobsExists |-> je, jobs |-> js, agents |-> ag]

CurStore == Store(jobsExists, jobs, agents)

\* jobs.find((j) => j.id === jobId): index of the first match, 0 when none
FindJob(js, jobId) ==
    IF \E i \in 1..Len(js) : js[i].id = jobId
    THEN CHOOSE i \in 1..Len(js) :
            /\ js[i].id = jobId
            /\ \A k \in 1..(i - 1) : js[k].id # jobId
    ELSE 0

\* fallbacks.includes(m): an absent value is never found in a parsed array
Includes(fb, m) == m # Undef /\ \E i \in 1..Len(fb) : fb[i] = m

\* JSON.stringify writes an undefined array element as null
Stored(m) == IF m = Undef THEN "null" ELSE m

\* an absent numeric field
UndefNum == 0 - 1

\* fallbacks.splice(position ?? 0, 0, model)
Splice(fb, position, m) ==
    LET p == IF position = UndefNum THEN 0 ELSE position
        at == IF p > Len(fb) THEN Len(fb) ELSE p
    IN SubSeq(fb, 1, at) \o <<Stored(m)>> \o SubSeq(fb, at + 1, Len(fb))

\* fallbacks.filter((f) => f !== model)
Without(fb, m) == SelectSeq(fb, LAMBDA f : f # m)

(***************************************************************************)
(* Actions and results                                                     *)
(***************************************************************************)
Action(type, ttype, id, from, to, model, position, localModel, splits, reversible) ==
    [type |-> type, ttype |-> ttype, id |-> id, from |-> from, to |-> to,
     model |-> model, position |-> position, localModel |-> localModel,
     splits |-> splits, reversible |-> reversible]

\* the action literal changeCronModel / changeAgentModel put in their result
ChangeModelAction(ttype, id, from, to) ==
    Action("change_model", ttype, id, from, to, Undef, UndefNum, Undef, UndefNum, TRUE)

NoRollbackInfo == [present |-> FALSE, from |-> Undef, to |-> Undef]
RollbackInfo(from, to) == [present |-> TRUE, from |-> from, to |-> to]

ActionResult(action, status, hasError, rollbackInfo) ==
    [action |-> action, status |-> status, error |-> hasError,
     rollbackInfo |-> rollbackInfo]

\* what a handler hands back: the stores after it and its ActionResult
Outcome(st, res) == [st |-> st, res |-> res]

(***************************************************************************)
(* ActionApplier handlers.  Each takes the stores, the applier's dryRun    *)
(* flag, its arguments and the outcome io of its file system calls, and    *)
(* yields the stores after it together with its ActionResult.              *)
(***************************************************************************)

\* changeCronModel without the dry-run return: the preview writes the file
changeCronModel_noPreview(st, dry, jobId, from, to, io) ==
    LET i == FindJob(st.jobs, jobId)
        failed == Outcome(st, ActionResult(ChangeModelAction("cron", jobId, from, to),
                                           StatusFailed, TRUE, NoRollbackInfo))
    IN IF ~st.jobsExists \/ io # "ok" \/ i = 0 THEN failed
       ELSE Outcome([st EXCEPT !.jobs[i].model = to],
                    ActionResult(ChangeModelAction("cron", jobId, from, to),
                                 StatusApplied, FALSE, RollbackInfo(from, to)))

\* changeCronModel setting the model of every job of the file
changeCronModel_everyJob(st, dry, jobId, from, to, io) ==
    LET i == FindJob(st.jobs, jobId)
        failed == Outcome(st, ActionResult(ChangeModelAction("cron", jobId, from, to),
                                           StatusFailed, TRUE, NoRollbackInfo))
        applied(s) == Outcome(s, ActionResult(ChangeModelAction("cron", jobId, from, to),
                                              StatusApplied, FALSE, RollbackInfo(from, to)))
    IN IF ~st.jobsExists THEN failed
       ELSE IF dry THEN applied(st)
       ELSE IF io # "ok" \/ i = 0 THEN failed
       ELSE applied([st EXCEPT !.jobs = [k \in 1..Len(st.jobs) |->
                                            [st.jobs[k] EXCEPT !.model = to]]])

\* changeCronModel without the found check: a missing job is reported applied
changeCronModel_noFoundCheck(st, dry, jobId, from, to, io) ==
    LET i == FindJob(st.jobs, jobId)
        failed == Outcome(st, ActionResult(ChangeModelAction("cron", jobId, from, to),
                                           StatusFailed, TRUE, NoRollbackInfo))
        applied(s) == Outcome(s, ActionResult(ChangeModelAction("cron", jobId, from, to),
                                              StatusApplied, FALSE, RollbackInfo(from, to)))
    IN IF ~st.jobsExists THEN failed
       ELSE IF dry THEN applied(st)
       ELSE IF io # "ok" THEN failed
       ELSE IF i = 0 THEN applied(st)
       ELSE applied([st EXCEPT !.jobs[i].model = to])

\* changeCronModel(jobId, from, to)
changeCronModel(st, dry, jobId, from, to, io) ==
    IF ~st.jobsExists
    THEN Outcome(st, ActionResult(ChangeModelAction("cron", jobId, Undef, Undef),
                                  StatusFailed, TRUE, NoRollbackInfo))
    ELSE IF dry
    THEN Outcome(st, ActionResult(ChangeModelAction("cron", jobId, from, to),
                                  StatusApplied, FALSE, RollbackInfo(from, to)))
    ELSE LET i == FindJob(st.jobs, jobId)
             failed == Outcome(st, ActionResult(ChangeModelAction("cron", jobId, from, to),
                                                StatusFailed, TRUE, NoRollbackInfo))
         IN IF io = "readFail" THEN failed
            ELSE IF i = 0 THEN failed
            ELSE IF io = "writeFail" THEN failed
            ELSE Outcome([st EXCEPT !.jobs[i].model = to],
                         ActionResult(ChangeModelAction("cron", jobId, from, to),
                                      StatusApplied, FALSE, RollbackInfo(from, to)))

\* changeAgentModel(agentId, from, to)
changeAgentModel(st, dry, agentId, from, to, io) ==
    LET known == agentId \in DOMAIN st.agents /\ st.agents[agentId].exists
        failed == Outcome(st, ActionResult(ChangeModelAction("agent", agentId, from, to),
                                           StatusFailed, TRUE, NoRollbackInfo))
        applied(s) == Outcome(s, ActionResult(ChangeModelAction("agent", agentId, from, to),
                                              StatusApplied, FALSE, RollbackInfo(from, to)))
    IN IF ~known THEN failed
       ELSE IF dry THEN applied(st)
       ELSE IF io # "ok" THEN failed
       ELSE LET fb == st.agents[agentId].fallbacks
                fb2 == IF Includes(fb, from) THEN fb ELSE <<Stored(from)>> \o fb
            IN applied([st EXCEPT !.agents[agentId].primary = to,
                                  !.agents[agentId].fallbacks = fb2])

\* applyChangeModel(action)
applyChangeModel(st, dry, action, io) ==
    IF action.ttype = "cron"
    THEN changeCronModel(st, dry, action.id, action.from, action.to, io)
    ELSE IF action.ttype = "agent"
    THEN changeAgentModel(st, dry, action.id, action.from, action.to, io)
    ELSE Outcome(st, ActionResult(action, StatusSkipped, TRUE, NoRollbackInfo))

\* applyAddFallback(action)
applyAddFallback(st, dry, action, io) ==
    LET known == action.id \in DOMAIN st.agents /\ st.agents[action.id].exists
        result(status, err) == ActionResult(action, status, err, NoRollbackInfo)
    IN IF action.ttype # "agent" THEN Outcome(st, result(StatusSkipped, TRUE))
       ELSE IF ~known THEN Outcome(st, result(StatusFailed, TRUE))
       ELSE IF dry THEN Outcome(st, result(StatusApplied, FALSE))
       ELSE IF io = "readFail" THEN Outcome(st, result(StatusFailed, TRUE))
       ELSE LET fb == st.agents[action.id].fallbacks
            IN IF Includes(fb, action.model)
               THEN Outcome(st, result(StatusApplied, FALSE))
               ELSE IF io = "writeFail" THEN Outcome(st, result(StatusFailed, TRUE))
               ELSE Outcome([st EXCEPT !.agents[action.id].fallbacks =
                                          Splice(fb, action.position, action.model)],
                            result(StatusApplied, FALSE))

\* applyRemoveFallback(action)
applyRemoveFallback(st, dry, action, io) ==
    LET known == action.id \in DOMAIN st.agents /\ st.agents[action.id].exists
        result(status, err) == ActionResult(action, status, err, NoRollbackInfo)
    IN IF action.ttype # "agent" THEN Outcome(st, result(StatusSkipped, TRUE))
       ELSE IF dry THEN Outcome(st, result(StatusApplied, FALSE))
       ELSE IF ~known \/ io # "ok" THEN Outcome(st, result(StatusFailed, TRUE))
       ELSE Outcome([st EXCEPT !.agents[action.id].fallbacks =
                                  Without(st.agents[action.id].fallbacks, action.model)],
                    result(StatusApplied, FALSE))

\* applySplitJob carrying out the split when live: the original is disabled
applySplitJob_liveApplies(st, dry, action, io) ==
    LET i == FindJob(st.jobs, action.id)
    IN IF dry \/ i = 0
       THEN Outcome(st, ActionResult(action, StatusApplied, FALSE, NoRollbackInfo))
       ELSE Outcome([st EXCEPT !.jobs[i].enabled = FALSE],
                    ActionResult(action, StatusApplied, FALSE, NoRollbackInfo))

\* applySplitJob(action)
applySplitJob(st, dry, action, io) ==
    IF dry
    THEN IF action.splits = UndefNum
         THEN Outcome(st, ActionResult(action, StatusFailed, TRUE, NoRollbackInfo))
         ELSE Outcome(st, ActionResult(action, StatusApplied, FALSE, NoRollbackInfo))
    ELSE Outcome(st, ActionResult(action, StatusSkipped, TRUE, NoRollbackInfo))

\* applyRouteToLocal(action)
applyRouteToLocal(st, dry, action, io) ==
    changeCronModel(st, dry, action.id, "current", action.localModel, io)

\* applyAction(action)
applyAction(st, dry, action, io) ==
    CASE action.type = "change_model" -> applyChangeModel(st, dry, action, io)
      [] action.type = "add_fallback" -> applyAddFallback(st, dry, action, io)
      [] action.type = "remove_fallback" -> applyRemoveFallback(st, dry, action, io)
      [] action.type = "split_job" -> applySplitJob(st, dry, action, io)
      [] action.type = "route_to_local" -> applyRouteToLocal(st, dry, action, io)
      [] OTHER -> Outcome(st, ActionResult(action, StatusSkipped, TRUE, NoRollbackInfo))

\* rollback(result): the value it returns and the stores after it
rollback(st, result, io) ==
    IF result.status # StatusApplied \/ ~result.rollbackInfo.present
       \/ ~result.action.reversible
    THEN [st |-> st, ret |-> FALSE]
    ELSE LET a == result.action
             rollbackAction ==
                 Action(a.type, a.ttype, a.id, result.rollbackInfo.to,
                        result.rollbackInfo.from, Undef, UndefNum, Undef, UndefNum,
                        a.reversible)
             out == applyAction(st, FALSE, rollbackAction, io)
         IN [st |-> out.st, ret |-> (out.res.status = StatusApplied)]

(***************************************************************************)
(* Inputs: the stores a run starts from and the plans handed to applyPlan  *)
(***************************************************************************)
Job(id, model) == [id |-> id, model |-> model, enabled |-> TRUE]

\* the models of the jobs after the first in the job arrays below
JobModelSeq == <<"claude-sonnet-4-5", "claude-sonnet-4-5", "claude-haiku-4-5", "claude-sonnet-4-5">>

\* job arrays of up to MaxJobs jobs job1, job2, ...: job1 is missing from the
\* empty one and job2 from those of one job; the first job's model varies
JobStores ==
    UNION {{[i \in 1..n |-> Job(JobIdSeq[i], IF i = 1 THEN m ELSE JobModelSeq[i])] :
               m \in PlanModels} : n \in 0..MaxJobs}

FallbackChains ==
    UNION {{fb \in [1..n -> PlanModels] :
               \A i, k \in 1..n : i # k => fb[i] # fb[k]} : n \in 0..MaxFallbacks}

NoAgent == [exists |-> FALSE, primary |-> Undef, fallbacks |-> <<>>]

AgentFiles ==
    {NoAgent} \cup [exists : {TRUE}, primary : PlanModels, fallbacks : FallbackChains]

\* the actions plans are made of: what generatePlan emits (change_model,
\* add_fallback, split_job) and the other shapes the applier dispatches on
PlanActions ==
    {Action("change_model", "cron", j, "claude-sonnet-4-5", "claude-haiku-4-5",
            Undef, UndefNum, Undef, UndefNum, TRUE) : j \in {"job1", "job2"}}
    \cup {Action("change_model", "agent", a, "claude-sonnet-4-5", "claude-haiku-4-5",
                 Undef, UndefNum, Undef, UndefNum, TRUE) : a \in AgentIds}
    \cup {Action("change_model", "config", "job1", "claude-sonnet-4-5", "claude-haiku-4-5",
                 Undef, UndefNum, Undef, UndefNum, TRUE)}
    \cup {Action("add_fallback", "agent", a, Undef, Undef, "claude-sonnet-4-5", 0, Undef,
                 UndefNum, TRUE) : a \in AgentIds}
    \cup {Action("add_fallback", "cron", "job1", Undef, Undef, "claude-sonnet-4-5", 0,
                 Undef, UndefNum, TRUE)}
    \cup {Action("remove_fallback", "agent", a, Undef, Undef, "claude-sonnet-4-5", UndefNum,
                 Undef, UndefNum, FALSE) : a \in AgentIds}
    \cup {Action("split_job", "cron", "job1", Undef, Undef, Undef, UndefNum, Undef, 2, FALSE)}
    \cup {Action("route_to_local", "cron", "job1", Undef, Undef, Undef, UndefNum, LocalModel,
                 UndefNum, TRUE)}
    \cup {Action("merge_jobs", "cron", "job1", Undef, Undef, Undef, UndefNum, Undef,
                 UndefNum, FALSE)}

Plans == UNION {[1..n -> PlanActions] : n \in 0..MaxPlan}

NoAction == Action("none", "none", "none", Undef, Undef, Undef, UndefNum, Undef, UndefNum, FALSE)
NoResult == ActionResult(NoAction, "none", FALSE, NoRollbackInfo)

\* an optimization run that has not begun
IdleRun == [kind |-> "none", pc |-> "idle", dry |-> TRUE, actions |-> <<>>, idx |-> 0,
            halted |-> FALSE]

\* the record kept of the operation that led to the current state
Last(op, dry, action, res, before, k, ret, io) ==
    [op |-> op, dry |-> dry, action |-> action, res |-> res, before |-> before,
     k |-> k, ret |-> ret, io |-> io]

(***************************************************************************)
(* The router state: quota counters, budgets and the usage ledger          *)
(***************************************************************************)
Providers == {"openrouter", "anthropic"}

\* state.quotas[provider] is undefined
NoQuota == [tracked |-> FALSE, used |-> 0, limit |-> 0, lastReset |-> 0, nextReset |-> 0]

\* state.quotas[provider]
Quota(used, limit, lastReset, nextReset) ==
    [tracked |-> TRUE, used |-> used, limit |-> limit, lastReset |-> lastReset,
     nextReset |-> nextReset]

\* state.budgets[provider] is undefined
NoBudget == [tracked |-> FALSE, currentSpend |-> 0]

\* state.budgets[provider]
Budget(currentSpend) == [tracked |-> TRUE, currentSpend |-> currentSpend]

\* a UsageRecord; cost is UndefNum when the caller gave none.  model, source
\* and sourceId are carried along unread and are left out.
UsageRecord(timestamp, provider, tokensIn, tokensOut, cost) ==
    [timestamp |-> timestamp, provider |-> provider, tokensIn |-> tokensIn,
     tokensOut |-> tokensOut, cost |-> cost]

\* outcome of the file system calls of one saveState
SaveOutcomes == {"ok", "mkdirFail", "writeFail"}

\* state.usageHistory.slice(-MAX_USAGE_HISTORY) when the history is too long
TrimHistory(h) ==
    IF Len(h) > MAX_USAGE_HISTORY
    THEN SubSeq(h, Len(h) - MAX_USAGE_HISTORY + 1, Len(h))
    ELSE h

\* saveState(stateFile, state), its effect on state.usageHistory: the
\* directory is made first, then the history trimmed, then the file written,
\* all in one try block whose catch only logs
saveState(h, io) == IF io = "mkdirFail" THEN h ELSE TrimHistory(h)

\* recordUsage counting only the prompt side of a record
recordUsage_promptOnly(q, b, h, record) ==
    LET provider == record.provider
    IN [usageHistory |-> Append(h, record),
        quotas |-> IF q[provider].tracked
                   THEN [q EXCEPT ![provider].used = @ + record.tokensIn]
                   ELSE q,
        budgets |-> IF b[provider].tracked /\ record.cost # UndefNum /\ record.cost # 0
                    THEN [b EXCEPT ![provider].currentSpend = @ + record.cost]
                    ELSE b]

\* recordUsage(state, record)
recordUsage(q, b, h, record) ==
    LET provider == record.provider
    IN [usageHistory |-> Append(h, record),
        quotas |-> IF q[provider].tracked
                   THEN [q EXCEPT ![provider].used = @ + record.tokensIn + record.tokensOut]
                   ELSE q,
        budgets |-> IF b[provider].tracked /\ record.cost # UndefNum /\ record.cost # 0
                    THEN [b EXCEPT ![provider].currentSpend = @ + record.cost]
                    ELSE b]

\* config.warningThreshold and config.criticalThreshold, in hundredths
warningThreshold == 80
criticalThreshold == 95

Notification(provider, level) == [provider |-> provider, level |-> level]
NoNotification == Notification(Undef, "none")

\* QuotaTracker.checkThresholds(provider): the notification logged
checkThresholds(q, provider) ==
    IF ~q[provider].tracked \/ q[provider].limit = 0 THEN NoNotification
    ELSE IF q[provider].used >= q[provider].limit THEN Notification(provider, "exhausted")
    ELSE IF q[provider].used * 100 >= criticalThreshold * q[provider].limit
    THEN Notification(provider, "critical")
    ELSE IF q[provider].used * 100 >= warningThreshold * q[provider].limit
    THEN Notification(provider, "warning")
    ELSE NoNotification

\* no prediction has been asked for
NoPrediction ==
    [provider |-> Undef, tracked |-> FALSE, willExhaust |-> FALSE, hasTime |-> FALSE,
     hoursNum |-> 0, hoursDen |-> 1, confidence |-> 0, trend |-> "stable",
     rateNum |-> 0, rateDen |-> 1]

\* the record kept of the ledger operations: every record appended so far,
\* the counters the behaviour started from, and whether every operation so
\* far was a record
LedgerOp(appended, quotas0, budgets0, onlyRecords) ==
    [appended |-> appended, quotas0 |-> quotas0, budgets0 |-> budgets0,
     onlyRecords |-> onlyRecords]

\* calculateNextReset has not been called
NoReset == [type |-> "none", hour |-> UndefNum, dayOfWeek |-> UndefNum,
            dayOfMonth |-> UndefNum, fixedDate |-> UndefNum, timezone |-> Undef,
            hostOffset |-> 0, at |-> 0, returned |-> FALSE, next |-> 0]

\* createInitialState(): a router that tracks nothing and has recorded nothing
(***************************************************************************)
(* Queries: the tracker's averages, prompt classification, the provider    *)
(* registry, model matching and the capability scorer.  Scores and         *)
(* thresholds are in hundredths.                                           *)
(***************************************************************************)
TaskCapabilities == {"coding", "reasoning", "creative", "instruction", "context", "speed"}

\* KNOWN_PROVIDERS: the tier a provider is registered with
KnownTier(id) ==
    CASE id = "anthropic" -> "premium"
      [] id = "openrouter" -> "budget"
      [] OTHER -> Undef

\* the models each provider is registered with
ProviderModels(id) ==
    CASE id = "anthropic" -> <<"claude-haiku-4-5", "mystery">>
      [] id = "openrouter" -> <<"local-default", "mystery">>
      [] OTHER -> <<>>

\* a RegisteredProvider
RegisteredProvider(id, tier, models, isAvailable) ==
    [id |-> id, tier |-> tier, models |-> models, isAvailable |-> isAvailable]

\* the order the providers were registered in: the order of the registry's Map
RegistrationOrder == <<"anthropic", "openrouter">>

\* ProviderRegistry.register(id, config, models) of every configured provider
RegisteredAll ==
    [p \in Providers |-> RegisteredProvider(p, KnownTier(p), ProviderModels(p), TRUE)]

NoAverage == [provider |-> Undef, days |-> 0, num |-> 0, den |-> 1, total |-> 0,
              returned |-> FALSE]
NoTask == [primaryCapability |-> Undef, secondaryCapabilities |-> <<>>,
           hasSecondary |-> FALSE, contextLength |-> Undef,
           latencySensitive |-> FALSE, qualityThreshold |-> 0]
NoClassified == [coding |-> 0, reasoning |-> 0, creative |-> 0, simple |-> 0,
                 length |-> 0, latency |-> FALSE, returned |-> FALSE, profile |-> NoTask]
NoMatches == [task |-> NoTask, preferredTiers |-> <<>>, returned |-> FALSE,
              quotas |-> [p \in Providers |-> NoQuota],
              isAvailable |-> [p \in Providers |-> TRUE], list |-> <<>>]
\* scores of the six capabilities, all v
Uniform(v) == [cap \in TaskCapabilities |-> v]
\* a manualScores argument that overrides nothing
NoManual == Uniform(UndefNum)
\* the (provider, model) pairs of the registry: the cache keys
CacheKeys ==
    UNION {{<<p, ProviderModels(p)[i]>> : i \in 1..Len(ProviderModels(p))} : p \in Providers}
\* a cache slot: empty, or the ModelCapabilities stored under the key
NoEntry == [cached |-> FALSE, scores |-> Uniform(0), latencyClass |-> Undef,
            source |-> Undef]
EmptyCache == [k \in CacheKeys |-> NoEntry]
NoCapabilities == [modelId |-> Undef, provider |-> Undef, manual |-> NoManual,
                   hasManual |-> FALSE, returned |-> FALSE, caps |-> NoEntry]

QueriesAtRest ==
    /\ average = NoAverage
    /\ classified = NoClassified
    /\ registry = RegisteredAll
    /\ matches = NoMatches
    /\ cache = EmptyCache
    /\ capabilities = NoCapabilities

LedgerAtRest ==
    /\ quotas = [p \in Providers |-> NoQuota]
    /\ budgets = [p \in Providers |-> NoBudget]
    /\ usageHistory = <<>>
    /\ now = 0
    /\ ledger = LedgerOp(<<>>, [p \in Providers |-> NoQuota],
                         [p \in Providers |-> NoBudget], TRUE)
    /\ prediction = NoPrediction
    /\ notification = NoNotification
    /\ resetCalc = NoReset
    /\ QueriesAtRest

(***************************************************************************)
(* The applier as a state machine                                          *)
(***************************************************************************)
Init ==
    /\ jobsExists \in BOOLEAN
    /\ jobs \in JobStores
    /\ (~jobsExists => jobs = <<>>)
    /\ agents \in [AgentIds -> AgentFiles]
    /\ dryRun = TRUE
    /\ plan = <<>>
    /\ idx = 0
    /\ results = <<>>
    /\ pc = "idle"
    /\ snaps = <<>>
    /\ last = Last("none", TRUE, NoAction, NoResult, CurStore, 0, FALSE, "ok")
    /\ rollbacks = 0
    /\ mode = "manual"
    /\ service = "registered"
    /\ timerOn = FALSE
    /\ runs = [r \in 1..MaxRuns |-> IdleRun]
    /\ lastOptimization = 0
    /\ savedOptimization = 0
    /\ LedgerAtRest

\* new ActionApplier(config, dry) followed by the call applyPlan(plan)
StartApplyPlan ==
    /\ pc = "idle"
    /\ \E dry \in BOOLEAN, p \in Plans :
        /\ dryRun' = dry
        /\ plan' = p
        /\ pc' = IF Len(p) = 0 THEN "done" ELSE "applying"
    /\ idx' = 0
    /\ results' = <<>>
    /\ snaps' = <<>>
    /\ last' = Last("start", dryRun', NoAction, NoResult, CurStore, 0, FALSE, "ok")
    /\ UNCHANGED quotaVars
    /\ UNCHANGED <<jobsExists, jobs, agents, rollbacks, serviceVars>>

\* the file system failure that took place in a call: "ok" when the call
\* went the way it goes without one
Raised(withIo, withOk, io) == IF withIo = withOk THEN "ok" ELSE io

\* applyPlan that never breaks out of its loop
Halts_never(dry, status) == FALSE

\* applyPlan: if (!this.dryRun && result.status === "failed") break
Halts(dry, status) == ~dry /\ status = StatusFailed

\* one iteration of the for loop of applyPlan
ApplyStep ==
    /\ pc = "applying"
    /\ idx < Len(plan)
    /\ \E io \in IoOutcomes :
        LET action == plan[idx + 1]
            out == applyAction(CurStore, dryRun, action, io)
            halt == Halts(dryRun, out.res.status)
        IN /\ jobsExists' = out.st.jobsExists
           /\ jobs' = out.st.jobs
           /\ agents' = out.st.agents
           /\ results' = Append(results, out.res)
           /\ snaps' = Append(snaps, CurStore)
           /\ idx' = idx + 1
           /\ pc' = IF halt \/ idx + 1 = Len(plan) THEN "done" ELSE "applying"
           /\ last' = Last("apply", dryRun, action, out.res, CurStore, idx + 1, FALSE,
                           Raised(out, applyAction(CurStore, dryRun, action, "ok"), io))
    /\ UNCHANGED quotaVars
    /\ UNCHANGED <<dryRun, plan, rollbacks, serviceVars>>

\* rollback(results[k]) called on the applier once applyPlan has returned
Rollback ==
    /\ pc = "done"
    /\ rollbacks < MaxRollbacks
    /\ \E k \in 1..Len(results), io \in IoOutcomes :
        LET out == rollback(CurStore, results[k], io)
        IN /\ jobsExists' = out.st.jobsExists
           /\ jobs' = out.st.jobs
           /\ agents' = out.st.agents
           /\ last' = Last("rollback", dryRun, results[k].action, results[k], CurStore,
                           k, out.ret,
                           Raised(out, rollback(CurStore, results[k], "ok"), io))
    /\ rollbacks' = rollbacks + 1
    /\ UNCHANGED quotaVars
    /\ UNCHANGED <<dryRun, plan, idx, results, pc, snaps, serviceVars>>

\* applyPlan run on its own
Next == StartApplyPlan \/ ApplyStep

Spec == Init /\ [][Next]_vars

\* applyPlan followed by rollback calls on its results
NextRollback == StartApplyPlan \/ ApplyStep \/ Rollback

SpecRollback == Init /\ [][NextRollback]_vars

(***************************************************************************)
(* Workload analysis and plan generation                                   *)
(***************************************************************************)
\* suggestCheaperModel(currentModel)
suggestCheaperModel(currentModel) ==
    CASE currentModel = "claude-opus-4-5" -> "claude-sonnet-4-5"
      [] currentModel = "claude-sonnet-4-5" -> "claude-haiku-4-5"
      [] currentModel = "gemini-2.5-flash" -> "gemini-2.5-flash-lite"
      [] OTHER -> "gemini-2.5-flash-lite"

\* what analyzeCronJobs derives from a job's prompt and run log, which the
\* applier never writes: inferComplexity(prompt), the run records and their
\* successes, and the number of split opportunities found in the prompt
JobProfile(id) ==
    CASE id = "job1" -> [complexity |-> "moderate", runs |-> 20, successes |-> 19, splits |-> 2]
      [] id = "job2" -> [complexity |-> "simple", runs |-> 10, successes |-> 10, splits |-> 0]
      [] id = "job3" -> [complexity |-> "complex", runs |-> 0, successes |-> 0, splits |-> 1]
      [] OTHER -> [complexity |-> "moderate", runs |-> 10, successes |-> 8, splits |-> 0]

\* analyzeCronJobs: canDowngrade = complexity !== "complex" && successRate > 0.9
canDowngrade(id) ==
    LET p == JobProfile(id)
    IN /\ p.complexity # "complex"
       /\ (p.runs = 0 \/ p.successes * 10 > p.runs * 9)

\* analyzeCronJobs: canSplit = splitOpportunities.length > 0
canSplit(id) == JobProfile(id).splits > 0

\* number of session files of an agent
ActiveSessionCount(agentId) == 2

\* "opus" occurs in the model name
IncludesOpus(m) == m \in {"claude-opus-4-5", "claude-opus-4-6"}

\* analyzeAgent: canUseCheaperDefault
canUseCheaperDefault(agentId, primaryModel) ==
    ~IncludesOpus(primaryModel) /\ ActiveSessionCount(agentId) < 5

\* generateCronActions(job)
generateCronActions(job) ==
    LET currentModel == IF job.model = Undef THEN "default" ELSE job.model
    IN (IF canDowngrade(job.id)
        THEN <<Action("change_model", "cron", job.id, currentModel,
                      suggestCheaperModel(currentModel), Undef, UndefNum, Undef,
                      UndefNum, TRUE)>>
        ELSE <<>>)
       \o (IF canSplit(job.id)
           THEN <<Action("split_job", "cron", job.id, Undef, Undef, Undef, UndefNum,
                         Undef, JobProfile(job.id).splits, FALSE)>>
           ELSE <<>>)

\* generateAgentActions(agent), agent being analyzeAgent's reading of file
generateAgentActions(agentId, file) ==
    LET primaryModel == IF file.primary = Undef THEN "default" ELSE file.primary
    IN IF canUseCheaperDefault(agentId, primaryModel)
       THEN <<Action("change_model", "agent", agentId, primaryModel,
                     suggestCheaperModel(primaryModel), Undef, UndefNum, Undef,
                     UndefNum, TRUE)>>
            \o (IF Includes(file.fallbacks, primaryModel) THEN <<>>
                ELSE <<Action("add_fallback", "agent", agentId, Undef, Undef, primaryModel,
                              0, Undef, UndefNum, TRUE)>>)
       ELSE <<>>

\* the agent directories in the order readdirSync lists them; an agent
\* without models.json is analysed with primary "default" and no fallbacks
AgentSeq == <<"agentA">>

RECURSIVE CronActionsFrom(_, _)
\* generatePlan: the loop over the analysed jobs, from job i on
CronActionsFrom(js, i) ==
    IF i > Len(js) THEN <<>>
    ELSE (IF js[i].enabled /\ (canDowngrade(js[i].id) \/ canSplit(js[i].id))
          THEN generateCronActions(js[i]) ELSE <<>>)
         \o CronActionsFrom(js, i + 1)

RECURSIVE AgentActionsFrom(_, _)
\* generatePlan: the loop over the analysed agents, from agent i on
AgentActionsFrom(ag, i) ==
    IF i > Len(AgentSeq) THEN <<>>
    ELSE generateAgentActions(AgentSeq[i], ag[AgentSeq[i]])
         \o AgentActionsFrom(ag, i + 1)

\* generatePlan().actions
generatePlan(st) ==
    (IF st.jobsExists THEN CronActionsFrom(st.jobs, 1) ELSE <<>>)
    \o AgentActionsFrom(st.agents, 1)

FilterActions_keepAll(actions, filter) == actions

\* plan.actions.filter(...) of the optimize tool and of the timer callback
FilterActions(actions, filter) ==
    SelectSeq(actions, LAMBDA a :
        CASE filter = "crons-only" -> a.ttype = "cron"
          [] filter = "agents-only" -> a.ttype = "agent"
          [] filter = "safe-only" -> a.reversible
          [] OTHER -> TRUE)

(***************************************************************************)
(* The service: the periodic auto-optimization and the operator's optimize *)
(***************************************************************************)
Modes == {"manual", "dry-run", "auto"}
\* the modes the service is started in: config.mode is only ever compared with
\* "auto", so "dry-run" behaves as "manual" does
ServiceModes == Modes \ {"dry-run"}
Filters == {"all", "crons-only", "agents-only", "safe-only"}
\* a file operation of a run succeeds or throws
ServiceIo == {"ok", "writeFail"}

\* the job stores of an installation: no file, no job, or one job
ServiceJobStores == {js \in JobStores : Len(js) <= 1}

\* the agent files of an installation: none, or a primary model with an
\* empty or a one-model fallback chain
ServiceAgentFiles ==
    {NoAgent} \cup
    {[exists |-> TRUE, primary |-> m, fallbacks |-> fb] :
        m \in PlanModels, fb \in {<<>>, <<"claude-haiku-4-5">>}}

InitService ==
    /\ jobsExists \in BOOLEAN
    /\ jobs \in ServiceJobStores
    /\ (~jobsExists => jobs = <<>>)
    /\ agents \in [AgentIds -> ServiceAgentFiles]
    /\ dryRun = TRUE
    /\ plan = <<>>
    /\ idx = 0
    /\ results = <<>>
    /\ pc = "idle"
    /\ snaps = <<>>
    /\ last = Last("none", TRUE, NoAction, NoResult, CurStore, 0, FALSE, "ok")
    /\ rollbacks = 0
    /\ mode \in ServiceModes
    /\ service = "registered"
    /\ timerOn = FALSE
    /\ runs = [r \in 1..MaxRuns |-> IdleRun]
    /\ lastOptimization = 0
    /\ savedOptimization = 0
    /\ LedgerAtRest

\* registerService start: startAutoOptimization is called in auto mode only
ServiceStart ==
    /\ service = "registered"
    /\ service' = "started"
    /\ timerOn' = (mode = "auto")
    /\ UNCHANGED quotaVars
    /\ UNCHANGED <<jobsExists, jobs, agents, applierVars, mode, runs, lastOptimization,
                   savedOptimization>>

\* registerService stop: doSaveState()
ServiceStop ==
    /\ service = "started"
    /\ service' = "stopped"
    /\ savedOptimization' = lastOptimization
    /\ UNCHANGED quotaVars
    /\ UNCHANGED <<jobsExists, jobs, agents, applierVars, mode, timerOn, runs,
                   lastOptimization>>

\* run r has entered applyPlan and has actions of its plan left to apply
InFlight(run) ==
    run.pc = "applying" /\ ~run.halted /\ run.idx < Len(run.actions)

\* applyPlan of run r carries out its next action; every await of applyPlan
\* is a point where another ready callback or process may take its turn
RunNextAction(r, io) ==
    LET run == runs[r]
        out == applyAction(CurStore, run.dry, run.actions[run.idx + 1], io)
    IN /\ jobsExists' = out.st.jobsExists
       /\ jobs' = out.st.jobs
       /\ agents' = out.st.agents
       /\ runs' = [runs EXCEPT ![r].pc = "applying",
                               ![r].idx = run.idx + 1,
                               ![r].halted = Halts(run.dry, out.res.status)]

\* the setInterval callback up to its await import(...)
TimerFire(r) ==
    /\ timerOn
    /\ runs[r].pc = "idle"
    /\ \A q \in 1..(r - 1) : runs[q].pc # "idle"
    /\ \A q \in 1..MaxRuns : runs[q].kind = "timer" => runs[q].pc # "applying"
    /\ LET actions == generatePlan(CurStore)
           safeActions == FilterActions(actions, "safe-only")
       IN runs' = [runs EXCEPT ![r] =
                    IF Len(actions) = 0 \/ Len(safeActions) = 0
                    THEN [IdleRun EXCEPT !.pc = "done"]
                    ELSE [kind |-> "timer", pc |-> "import", dry |-> FALSE,
                          actions |-> safeActions, idx |-> 0, halted |-> FALSE]]
    /\ UNCHANGED quotaVars
    /\ UNCHANGED <<jobsExists, jobs, agents, applierVars, mode, service, timerOn,
                   lastOptimization, savedOptimization>>

\* the import has resolved: new ActionApplier(config, false), and applyPlan
\* runs up to its first await, its first action carried out
TimerResume(r) ==
    /\ runs[r].kind = "timer" /\ runs[r].pc = "import"
    /\ \E io \in ServiceIo : RunNextAction(r, io)
    /\ UNCHANGED quotaVars
    /\ UNCHANGED <<applierVars, mode, service, timerOn, lastOptimization, savedOptimization>>

\* the optimize tool handler / optimize command asked to apply: generatePlan,
\* filter, new ActionApplier(config, false) and applyPlan up to its first
\* await (asked to preview, it writes nothing; StartApplyPlan covers that)
OperatorOptimize(r) ==
    /\ runs[r].pc = "idle"
    /\ \A q \in 1..(r - 1) : runs[q].pc # "idle"
    /\ \E shouldApply \in {TRUE}, filter \in Filters, io \in ServiceIo :
        LET actions == FilterActions(generatePlan(CurStore), filter)
            run == [kind |-> "operator", pc |-> "applying", dry |-> ~shouldApply,
                    actions |-> actions, idx |-> 0, halted |-> FALSE]
        IN IF Len(actions) = 0
           THEN /\ runs' = [runs EXCEPT ![r] = run]
                /\ UNCHANGED <<jobsExists, jobs, agents>>
           ELSE LET out == applyAction(CurStore, run.dry, actions[1], io)
                IN /\ jobsExists' = out.st.jobsExists
                   /\ jobs' = out.st.jobs
                   /\ agents' = out.st.agents
                   /\ runs' = [runs EXCEPT ![r] =
                                [run EXCEPT !.idx = 1,
                                            !.halted = Halts(run.dry, out.res.status)]]
    /\ UNCHANGED quotaVars
    /\ UNCHANGED <<applierVars, mode, service, timerOn, lastOptimization, savedOptimization>>

\* a later iteration of the for loop of applyPlan of run r
RunApply(r) ==
    /\ InFlight(runs[r])
    /\ \E io \in ServiceIo : RunNextAction(r, io)
    /\ UNCHANGED quotaVars
    /\ UNCHANGED <<applierVars, mode, service, timerOn, lastOptimization, savedOptimization>>

\* applyPlan has returned: state.lastOptimization is set and saveState()
\* called (by the operator's run only when it applied)
RunFinish(r) ==
    /\ runs[r].pc = "applying" /\ ~InFlight(runs[r])
    /\ runs' = [runs EXCEPT ![r] = [IdleRun EXCEPT !.pc = "done"]]
    /\ IF runs[r].kind = "timer" \/ ~runs[r].dry
       THEN lastOptimization' = r /\ savedOptimization' = r
       ELSE UNCHANGED <<lastOptimization, savedOptimization>>
    /\ UNCHANGED quotaVars
    /\ UNCHANGED <<jobsExists, jobs, agents, applierVars, mode, service, timerOn>>

NextService ==
    \/ ServiceStart
    \/ ServiceStop
    \/ \E r \in 1..MaxRuns : TimerFire(r)
    \/ \E r \in 1..MaxRuns : TimerResume(r)
    \/ \E r \in 1..MaxRuns : OperatorOptimize(r)
    \/ \E r \in 1..MaxRuns : RunApply(r)
    \/ \E r \in 1..MaxRuns : RunFinish(r)

SpecService == InitService /\ [][NextService]_vars

(***************************************************************************)
(* The auto-optimization loop on its own: timer callbacks that do not      *)
(* overlap and whose file operations succeed                               *)
(***************************************************************************)
RECURSIVE applyPlan(_, _, _)
\* applyPlan of a live applier from action i on: the stores it leaves
applyPlan(st, actions, i) ==
    IF i > Len(actions) THEN st
    ELSE LET out == applyAction(st, FALSE, actions[i], "ok")
         IN IF Halts(FALSE, out.res.status) THEN out.st
            ELSE applyPlan(out.st, actions, i + 1)

\* the stores after one timer callback
StoreAfterCycle(st) == applyPlan(st, FilterActions(generatePlan(st), "safe-only"), 1)

InitAuto ==
    /\ jobsExists \in BOOLEAN
    /\ jobs \in JobStores
    /\ (~jobsExists => jobs = <<>>)
    /\ agents \in [AgentIds -> AgentFiles]
    /\ dryRun = TRUE
    /\ plan = <<>>
    /\ idx = 0
    /\ results = <<>>
    /\ pc = "idle"
    /\ snaps = <<>>
    /\ last = Last("none", TRUE, NoAction, NoResult, CurStore, 0, FALSE, "ok")
    /\ rollbacks = 0
    /\ mode = "auto"
    /\ service = "started"
    /\ timerOn = TRUE
    /\ runs = [r \in 1..MaxRuns |-> IdleRun]
    /\ lastOptimization = 0
    /\ savedOptimization = 0
    /\ LedgerAtRest

\* one whole setInterval callback: generatePlan, the reversible actions
\* applied live, state.lastOptimization set and saved
AutoCycle ==
    /\ timerOn
    /\ LET actions == generatePlan(CurStore)
           safeActions == FilterActions(actions, "safe-only")
           after == applyPlan(CurStore, safeActions, 1)
       IN IF Len(actions) = 0 \/ Len(safeActions) = 0
          THEN UNCHANGED <<jobsExists, jobs, agents, lastOptimization, savedOptimization>>
          ELSE /\ jobsExists' = after.jobsExists
               /\ jobs' = after.jobs
               /\ agents' = after.agents
               /\ lastOptimization' = 1
               /\ savedOptimization' = 1
    /\ UNCHANGED quotaVars
    /\ UNCHANGED <<applierVars, mode, service, timerOn, runs>>

NextAuto == AutoCycle

\* the interval timer keeps firing
SpecAuto == InitAuto /\ [][NextAuto]_vars /\ WF_vars(AutoCycle)

(***************************************************************************)
(* The usage ledger: QuotaTracker, recordUsage and the quota fetch         *)
(***************************************************************************)
\* the applier and the service take no step
ApplierAtRest ==
    /\ jobsExists = FALSE
    /\ jobs = <<>>
    /\ agents = [a \in AgentIds |-> NoAgent]
    /\ dryRun = TRUE
    /\ plan = <<>>
    /\ idx = 0
    /\ results = <<>>
    /\ pc = "idle"
    /\ snaps = <<>>
    /\ last = Last("none", TRUE, NoAction, NoResult, CurStore, 0, FALSE, "ok")
    /\ rollbacks = 0

ServiceAtRest ==
    /\ mode = "manual"
    /\ service = "registered"
    /\ timerOn = FALSE
    /\ runs = [r \in 1..MaxRuns |-> IdleRun]
    /\ lastOptimization = 0
    /\ savedOptimization = 0

\* the counters a loaded state file holds
LedgerQuotas == {NoQuota, Quota(1, 4, 0, 0)}
LedgerBudgets == {NoBudget, Budget(1)}

\* the completions that report usage: provider, tokensIn, tokensOut, cost
UsageEvents ==
    {[provider |-> "anthropic", tokensIn |-> 2, tokensOut |-> 1, cost |-> 2],
     [provider |-> "anthropic", tokensIn |-> 0, tokensOut |-> 1, cost |-> UndefNum],
     [provider |-> "openrouter", tokensIn |-> 2, tokensOut |-> 0, cost |-> 3]}
\* what an operator or the quota API sets a counter to
UsedValues == {0, 3}
\* the providers with quotaSource "api" and a fetcher
ApiProviders == {"openrouter"}

InitLedger ==
    /\ ApplierAtRest
    /\ ServiceAtRest
    /\ quotas \in [Providers -> LedgerQuotas]
    /\ quotas["anthropic"].tracked
    /\ budgets \in [Providers -> LedgerBudgets]
    /\ budgets["anthropic"].tracked /\ ~budgets["openrouter"].tracked
    /\ usageHistory = <<>>
    /\ now = 0
    /\ ledger = LedgerOp(<<>>, quotas, budgets, TRUE)
    /\ prediction = NoPrediction
    /\ notification = NoNotification
    /\ resetCalc = NoReset
    /\ QueriesAtRest

\* QuotaTracker.record: recordUsage, then onStateChange (saveState).  The
\* clock is read once per record and has moved on by the next one.
Record(provider, tokensIn, tokensOut, cost, io) ==
    /\ Len(ledger.appended) < MaxRecords
    /\ LET record == UsageRecord(now, provider, tokensIn, tokensOut, cost)
           st == recordUsage(quotas, budgets, usageHistory, record)
       IN /\ quotas' = st.quotas
          /\ budgets' = st.budgets
          /\ usageHistory' = saveState(st.usageHistory, io)
          /\ ledger' = [ledger EXCEPT !.appended = Append(@, record)]
    /\ now' = now + 1
    /\ notification' = checkThresholds(quotas', provider)
    /\ UNCHANGED prediction
    /\ UNCHANGED otherVars

\* QuotaTracker.setUsage(provider, used)
SetUsage(provider, used, io) ==
    /\ IF quotas[provider].tracked
       THEN /\ quotas' = [quotas EXCEPT ![provider].used = used]
            /\ usageHistory' = saveState(usageHistory, io)
            /\ notification' = checkThresholds(quotas', provider)
       ELSE /\ UNCHANGED <<quotas, usageHistory>>
            /\ notification' = NoNotification
    /\ ledger' = [ledger EXCEPT !.onlyRecords = FALSE]
    /\ UNCHANGED <<budgets, now, prediction>>
    /\ UNCHANGED otherVars

\* QuotaTracker.resetQuota(provider)
ResetQuota(provider, io) ==
    /\ IF quotas[provider].tracked
       THEN /\ quotas' = [quotas EXCEPT ![provider].used = 0, ![provider].lastReset = now]
            /\ usageHistory' = saveState(usageHistory, io)
       ELSE UNCHANGED <<quotas, usageHistory>>
    /\ ledger' = [ledger EXCEPT !.onlyRecords = FALSE]
    /\ notification' = NoNotification
    /\ UNCHANGED <<budgets, now, prediction>>
    /\ UNCHANGED otherVars

\* fetchApiBasedQuotas, one provider of its loop whose fetch succeeded
FetchApiBasedQuotas(providerId, limit, used, io) ==
    /\ LET q == IF quotas[providerId].tracked THEN quotas[providerId]
                ELSE Quota(0, 0, 0, 0)
       IN quotas' = [quotas EXCEPT ![providerId] = [q EXCEPT !.limit = limit, !.used = used]]
    /\ usageHistory' = saveState(usageHistory, io)
    /\ ledger' = [ledger EXCEPT !.onlyRecords = FALSE]
    /\ notification' = NoNotification
    /\ UNCHANGED <<budgets, now, prediction>>
    /\ UNCHANGED otherVars

NextLedger ==
    \/ \E e \in UsageEvents, io \in SaveOutcomes :
          Record(e.provider, e.tokensIn, e.tokensOut, e.cost, io)
    \/ \E provider \in Providers, used \in UsedValues, io \in SaveOutcomes :
          SetUsage(provider, used, io)
    \/ \E provider \in Providers, io \in SaveOutcomes : ResetQuota(provider, io)
    \/ \E providerId \in ApiProviders, used \in UsedValues, io \in SaveOutcomes :
          FetchApiBasedQuotas(providerId, 5, used, io)

SpecLedger == InitLedger /\ [][NextLedger]_vars

(***************************************************************************)
(* The exhaustion predictor.  Times are in minutes; a rate and a number of *)
(* hours are fractions num/den; a confidence is given in 720ths.           *)
(***************************************************************************)
Min(a, b) == IF a < b THEN a ELSE b

\* the timestamp of the earliest record of h: Math.min(...timestamps)
RECURSIVE FirstTimestamp(_)
FirstTimestamp(h) ==
    IF Len(h) = 1 THEN h[1].timestamp
    ELSE Min(h[1].timestamp, FirstTimestamp(Tail(h)))

\* sum of tokensIn + tokensOut over the records of h
RECURSIVE TotalTokens(_)
TotalTokens(h) ==
    IF h = <<>> THEN 0 ELSE h[1].tokensIn + h[1].tokensOut + TotalTokens(Tail(h))

UsageRate(num, den, confidence) == [num |-> num, den |-> den, confidence |-> confidence]

\* calculateUsageRate(provider) at time t: tokensPerHour = num/den
calculateUsageRate(h, provider, t) ==
    LET records == SelectSeq(h, LAMBDA r : r.provider = provider
                                           /\ r.timestamp >= t - 24 * 60)
        timeSpan == t - FirstTimestamp(records)
    IN IF Len(records) = 0 THEN UsageRate(0, 1, 0)
       ELSE IF timeSpan < 6 THEN UsageRate(0, 1, 72)
       ELSE UsageRate(TotalTokens(records) * 60, timeSpan,
                      36 * Min(10, Len(records)) + Min(360, timeSpan))

\* getUsageTrend(provider) at time t
getUsageTrend(h, provider, t) ==
    LET recentRecords == SelectSeq(h, LAMBDA r : r.provider = provider
                                                 /\ r.timestamp >= t - 4 * 60
                                                 /\ r.timestamp < t)
        olderRecords == SelectSeq(h, LAMBDA r : r.provider = provider
                                                /\ r.timestamp >= t - 8 * 60
                                                /\ r.timestamp < t - 4 * 60)
        recentTotal == TotalTokens(recentRecords)
        olderTotal == TotalTokens(olderRecords)
    IN IF Len(recentRecords) < 3 \/ Len(olderRecords) < 3 THEN "stable"
       ELSE IF olderTotal = 0 THEN "stable"
       ELSE IF recentTotal * 10 > olderTotal * 13 THEN "increasing"
       ELSE IF recentTotal * 10 < olderTotal * 7 THEN "decreasing"
       ELSE "stable"

\* an ExhaustionPrediction: hasTime says that predictedExhaustionTime and
\* hoursUntilExhaustion (hoursNum/hoursDen) are present; rateNum/rateDen is
\* the usage rate the prediction was made from
Prediction(provider, tracked, willExhaust, hasTime, hoursNum, hoursDen, confidence, trend, rate) ==
    [provider |-> provider, tracked |-> tracked, willExhaust |-> willExhaust,
     hasTime |-> hasTime, hoursNum |-> hoursNum, hoursDen |-> hoursDen,
     confidence |-> confidence, trend |-> trend, rateNum |-> rate.num,
     rateDen |-> rate.den]

\* predict reporting exhaustion whatever the next reset
predict_ignoresReset(q, h, provider, t) ==
    LET quota == q[provider]
        usageRate == calculateUsageRate(h, provider, t)
        remaining == quota.limit - quota.used
    IN IF ~quota.tracked
       THEN Prediction(provider, FALSE, FALSE, FALSE, 0, 1, 0, "stable", UsageRate(0, 1, 0))
       ELSE IF quota.used >= quota.limit
       THEN Prediction(provider, TRUE, TRUE, TRUE, 0, 1, 720, "stable", UsageRate(0, 1, 0))
       ELSE IF usageRate.num = 0
       THEN Prediction(provider, TRUE, FALSE, FALSE, 0, 1, 360, "stable", usageRate)
       ELSE Prediction(provider, TRUE, TRUE, TRUE, remaining * usageRate.den, usageRate.num,
                       usageRate.confidence, getUsageTrend(h, provider, t), usageRate)

\* predict reporting an exhausted quota only when used exceeds the limit
predict_strictlyOver(q, h, provider, t) ==
    LET quota == q[provider]
        usageRate == calculateUsageRate(h, provider, t)
        remaining == quota.limit - quota.used
        willExhaustBeforeReset ==
            \/ quota.nextReset = 0
            \/ remaining * usageRate.den * 60 < (quota.nextReset - t) * usageRate.num
    IN IF ~quota.tracked
       THEN Prediction(provider, FALSE, FALSE, FALSE, 0, 1, 0, "stable", UsageRate(0, 1, 0))
       ELSE IF quota.used > quota.limit
       THEN Prediction(provider, TRUE, TRUE, TRUE, 0, 1, 720, "stable", UsageRate(0, 1, 0))
       ELSE IF usageRate.num = 0 \/ remaining = 0
       THEN Prediction(provider, TRUE, FALSE, FALSE, 0, 1, 360, "stable", usageRate)
       ELSE IF willExhaustBeforeReset
       THEN Prediction(provider, TRUE, TRUE, TRUE, remaining * usageRate.den, usageRate.num,
                       usageRate.confidence, getUsageTrend(h, provider, t), usageRate)
       ELSE Prediction(provider, TRUE, FALSE, FALSE, 0, 1, usageRate.confidence,
                       getUsageTrend(h, provider, t), usageRate)

\* predict(provider) at time t, on quotas q and history h
predict(q, h, provider, t) ==
    LET quota == q[provider]
        usageRate == calculateUsageRate(h, provider, t)
        remaining == quota.limit - quota.used
        \* Date.now() + hoursUntilExhaustion * 60 * 60 * 1000 < quota.nextReset
        willExhaustBeforeReset ==
            \/ quota.nextReset = 0
            \/ remaining * usageRate.den * 60 < (quota.nextReset - t) * usageRate.num
    IN IF ~quota.tracked
       THEN Prediction(provider, FALSE, FALSE, FALSE, 0, 1, 0, "stable", UsageRate(0, 1, 0))
       ELSE IF quota.used >= quota.limit
       THEN Prediction(provider, TRUE, TRUE, TRUE, 0, 1, 720, "stable", UsageRate(0, 1, 0))
       ELSE IF usageRate.num = 0
       THEN Prediction(provider, TRUE, FALSE, FALSE, 0, 1, 360, "stable", usageRate)
       ELSE IF willExhaustBeforeReset
       THEN Prediction(provider, TRUE, TRUE, TRUE, remaining * usageRate.den, usageRate.num,
                       usageRate.confidence, getUsageTrend(h, provider, t), usageRate)
       ELSE Prediction(provider, TRUE, FALSE, FALSE, 0, 1, usageRate.confidence,
                       getUsageTrend(h, provider, t), usageRate)

\* how many minutes before the prediction a record was written
RecordAges == {0, 5, 6, 60, 25 * 60}

\* the records a history is made of, written before time t
PredictRecords(t) ==
    {UsageRecord(t - age, provider, tokens[1], tokens[2], UndefNum) :
        age \in RecordAges, provider \in Providers, tokens \in {<<0, 0>>, <<2, 1>>}}

\* the histories: up to MaxHistory records in the order they were written
PredictHistories(t) ==
    {h \in UNION {[1..n -> PredictRecords(t)] : n \in 0..MaxHistory} :
        \A i \in 1..(Len(h) - 1) : h[i].timestamp <= h[i + 1].timestamp}

\* the counters predictions are asked for: nextReset unset, in the past, or
\* some minutes ahead
PredictQuotas(t) ==
    {Quota(used, limit, 0, nextReset) :
        used \in {0, 2, 4, 5}, limit \in {0, 4},
        nextReset \in {0} \cup {t + d : d \in {0 - 10, 40, 80, 81}}}

InitPredict ==
    /\ ApplierAtRest
    /\ ServiceAtRest
    /\ now \in {2000}
    /\ usageHistory \in PredictHistories(now)
    /\ quotas \in [Providers -> PredictQuotas(now) \cup {NoQuota}]
    /\ quotas["anthropic"].tracked /\ ~quotas["openrouter"].tracked
    /\ budgets = [p \in Providers |-> NoBudget]
    /\ ledger = LedgerOp(usageHistory, quotas, budgets, TRUE)
    /\ prediction = NoPrediction
    /\ notification = NoNotification
    /\ resetCalc = NoReset
    /\ QueriesAtRest

\* QuotaPredictor.predict(provider)
Predict(provider) ==
    /\ prediction' = predict(quotas, usageHistory, provider, now)
    /\ UNCHANGED <<quotas, budgets, usageHistory, now, ledger, notification>>
    /\ UNCHANGED otherVars

NextPredict == \E provider \in Providers : Predict(provider)

SpecPredict == InitPredict /\ [][NextPredict]_vars

(***************************************************************************)
(* Reset schedules.  An instant is a number of half hours of host-local    *)
(* time since the start of a year that begins on a Sunday; years have 365  *)
(* days and daylight saving is left out.  The Date operations normalise an *)
(* out-of-range day or month the way the JavaScript ones do.               *)
(***************************************************************************)
MonthDays == <<31, 28, 31, 30, 31, 30, 31, 31, 30, 31, 30, 31>>

RECURSIVE DaysBefore(_)
\* days of the year before month m (0 = January)
DaysBefore(m) == IF m = 0 THEN 0 ELSE DaysBefore(m - 1) + MonthDays[m]

\* the instant of local year, month, date (either may be out of range), hour
\* and half hour
MakeDate(year, month, date, hour, half) ==
    (((year + (month \div 12)) * 365 + DaysBefore(month % 12) + date - 1) * 24 + hour) * 2
        + half

getFullYear(t) == t \div (365 * 48)
DayOfYear(t) == (t \div 48) % 365
getMonth(t) ==
    CHOOSE m \in 0..11 : DaysBefore(m) <= DayOfYear(t)
                         /\ DayOfYear(t) < DaysBefore(m) + MonthDays[m + 1]
getDate(t) == DayOfYear(t) - DaysBefore(getMonth(t)) + 1
getHours(t) == (t \div 2) % 24
HalfHour(t) == t % 2
getDay(t) == (t \div 48) % 7

\* date.setHours(hour, 0, 0, 0)
setHours(t, hour) == MakeDate(getFullYear(t), getMonth(t), getDate(t), hour, 0)
\* date.setDate(d)
setDate(t, d) == MakeDate(getFullYear(t), getMonth(t), d, getHours(t), HalfHour(t))
\* date.setMonth(m)
setMonth(t, m) == MakeDate(getFullYear(t), m, getDate(t), getHours(t), HalfHour(t))

\* the offsets table of applyTimezone, in hours; UndefNum when not listed
TimezoneOffset(timezone) ==
    CASE timezone \in {"America/New_York", "EST"} -> 0 - 5
      [] timezone \in {"America/Chicago", "CST"} -> 0 - 6
      [] timezone \in {"America/Denver", "MST"} -> 0 - 7
      [] timezone \in {"America/Los_Angeles", "PST"} -> 0 - 8
      [] OTHER -> UndefNum

\* applyTimezone(date, timezone); hostOffset is date.getTimezoneOffset() in
\* hours
applyTimezone(date, timezone, hostOffset) ==
    IF timezone = Undef \/ timezone = "UTC" THEN date
    ELSE IF TimezoneOffset(timezone) # UndefNum
    THEN date + hostOffset * 2 + TimezoneOffset(timezone) * 2
    ELSE date

\* schedule.hour ?? 0 and the like
OrElse(v, default) == IF v = UndefNum THEN default ELSE v

\* calculateDailyReset(now, schedule)
calculateDailyReset(t, schedule, hostOffset) ==
    LET atHour == setHours(t, OrElse(schedule.hour, 0))
        next == IF atHour <= t THEN setDate(atHour, getDate(atHour) + 1) ELSE atHour
    IN applyTimezone(next, schedule.timezone, hostOffset)

\* calculateWeeklyReset(now, schedule)
calculateWeeklyReset(t, schedule, hostOffset) ==
    LET dayOfWeek == OrElse(schedule.dayOfWeek, 0)
        hour == OrElse(schedule.hour, 0)
        diff == dayOfWeek - getDay(t)
        today == setHours(t, hour)
        daysUntil == IF diff < 0 THEN diff + 7
                     ELSE IF diff = 0 /\ today <= t THEN 7
                     ELSE diff
        from == IF diff = 0 THEN today ELSE t
        next == setHours(setDate(from, getDate(from) + daysUntil), hour)
    IN applyTimezone(next, schedule.timezone, hostOffset)

\* calculateMonthlyReset(now, schedule)
calculateMonthlyReset(t, schedule, hostOffset) ==
    LET dayOfMonth == OrElse(schedule.dayOfMonth, 1)
        thisMonth == setHours(setDate(t, dayOfMonth), OrElse(schedule.hour, 0))
        moved == IF thisMonth <= t THEN setMonth(thisMonth, getMonth(thisMonth) + 1)
                 ELSE thisMonth
        next == IF getDate(moved) # dayOfMonth THEN setDate(moved, 0) ELSE moved
    IN applyTimezone(next, schedule.timezone, hostOffset)

\* calculateFixedReset(schedule): the configured date, or tomorrow at midnight
\* when it is missing or invalid
calculateFixedReset(t, schedule) ==
    IF schedule.fixedDate = UndefNum THEN setHours(setDate(t, getDate(t) + 1), 0)
    ELSE schedule.fixedDate

\* calculateNextReset(schedule) called at instant t
calculateNextReset(t, schedule, hostOffset) ==
    CASE schedule.type = "daily" -> calculateDailyReset(t, schedule, hostOffset)
      [] schedule.type = "weekly" -> calculateWeeklyReset(t, schedule, hostOffset)
      [] schedule.type = "monthly" -> calculateMonthlyReset(t, schedule, hostOffset)
      [] schedule.type = "fixed" -> calculateFixedReset(t, schedule)

\* a ResetSchedule; a field that is not configured is undefined
ResetSchedule(type, hour, dayOfWeek, dayOfMonth, fixedDate, timezone) ==
    [type |-> type, hour |-> hour, dayOfWeek |-> dayOfWeek, dayOfMonth |-> dayOfMonth,
     fixedDate |-> fixedDate, timezone |-> timezone]

\* the configured values the schedules are made of
ResetHours == {UndefNum, 0, 12, 23}
ResetDaysOfWeek == {UndefNum, 0, 3, 6}
ResetDaysOfMonth == {UndefNum, 1, 15, 29, 30, 31}
ResetTimezones == {Undef, "UTC", "America/New_York", "Europe/Paris"}
\* getTimezoneOffset() of the host in hours: a host on UTC, a host six hours
\* behind it
HostOffsets == {0, 6}

\* the instants calculateNextReset is called at: days at the start, the middle
\* and the end of January, February, April and December
ResetInstants ==
    {MakeDate(1, m, d, h, half) :
        m \in {0, 1, 3, 11}, d \in {d \in {1, 15, 28, 30, 31} : d <= 31},
        h \in {0, 12, 22}, half \in {0, 1}}
    \cap UNION {{MakeDate(1, m, d, h, half) :
                    d \in 1..MonthDays[m + 1], h \in 0..23, half \in {0, 1}} :
                m \in 0..11}

ResetSchedules ==
    {ResetSchedule("daily", hour, UndefNum, UndefNum, UndefNum, timezone) :
        hour \in ResetHours, timezone \in ResetTimezones}
    \cup {ResetSchedule("weekly", hour, dayOfWeek, UndefNum, UndefNum, timezone) :
        hour \in ResetHours, dayOfWeek \in ResetDaysOfWeek, timezone \in ResetTimezones}
    \cup {ResetSchedule("monthly", hour, UndefNum, dayOfMonth, UndefNum, timezone) :
        hour \in ResetHours, dayOfMonth \in ResetDaysOfMonth,
        timezone \in ResetTimezones}
    \cup {ResetSchedule("fixed", UndefNum, UndefNum, UndefNum, fixedDate, Undef) :
        fixedDate \in {UndefNum, MakeDate(1, 5, 1, 0, 0)}}

\* a call about to be made: its schedule, instant and host
ResetCall(schedule, t, hostOffset) ==
    [type |-> schedule.type, hour |-> schedule.hour, dayOfWeek |-> schedule.dayOfWeek,
     dayOfMonth |-> schedule.dayOfMonth, fixedDate |-> schedule.fixedDate,
     timezone |-> schedule.timezone, hostOffset |-> hostOffset, at |-> t,
     returned |-> FALSE, next |-> 0]

InitReset ==
    /\ ApplierAtRest
    /\ ServiceAtRest
    /\ quotas = [p \in Providers |-> NoQuota]
    /\ budgets = [p \in Providers |-> NoBudget]
    /\ usageHistory = <<>>
    /\ now = 0
    /\ ledger = LedgerOp(<<>>, quotas, budgets, TRUE)
    /\ prediction = NoPrediction
    /\ notification = NoNotification
    /\ QueriesAtRest
    /\ resetCalc \in {ResetCall(schedule, t, hostOffset) :
                        schedule \in ResetSchedules, t \in ResetInstants,
                        hostOffset \in HostOffsets}

\* calculateNextReset(schedule) returns
CalculateNextReset ==
    /\ ~resetCalc.returned
    /\ resetCalc' = [resetCalc EXCEPT
                        !.returned = TRUE,
                        !.next = calculateNextReset(resetCalc.at, resetCalc,
                                                    resetCalc.hostOffset)]
    /\ UNCHANGED <<jobsExists, jobs, agents, applierVars, serviceVars, ledgerVars, queryVars>>

NextReset == CalculateNextReset

SpecReset == InitReset /\ [][NextReset]_vars

(***************************************************************************)
(* The tracker's daily average                                             *)
(***************************************************************************)
Max(a, b) == IF a > b THEN a ELSE b

Average(provider, days, total, num, den) ==
    [provider |-> provider, days |-> days, num |-> num, den |-> den, total |-> total,
     returned |-> TRUE]

\* QuotaTracker.getAverageDailyUsage(provider, days) at time t, as the fraction
\* num/den of tokens per day; nominalWindow divides by the window length
getAverageDailyUsage_nominalWindow(h, provider, days, t) ==
    LET records == SelectSeq(h, LAMBDA r : r.provider = provider
                                           /\ r.timestamp >= t - days * 24 * 60)
    IN IF Len(records) = 0 THEN Average(provider, days, 0, 0, 1)
       ELSE Average(provider, days, TotalTokens(records),
                    TotalTokens(records) * 24 * 60, days * 24 * 60)

getAverageDailyUsage(h, provider, days, t) ==
    LET records == SelectSeq(h, LAMBDA r : r.provider = provider
                                           /\ r.timestamp >= t - days * 24 * 60)
    IN IF Len(records) = 0 THEN Average(provider, days, 0, 0, 1)
       ELSE Average(provider, days, TotalTokens(records),
                    TotalTokens(records) * 24 * 60,
                    Max(24 * 60, t - FirstTimestamp(records)))

\* the window lengths asked for, in days
AverageDays == {1, 3, 7}

\* one call of getAverageDailyUsage
GetAverageDailyUsage(provider, days) ==
    /\ average' = getAverageDailyUsage(usageHistory, provider, days, now)
    /\ UNCHANGED <<classified, registry, matches, cache, capabilities>>
    /\ UNCHANGED <<jobsExists, jobs, agents, applierVars, serviceVars, ledgerVars,
                   resetCalc>>

NextAverage ==
    \E provider \in Providers, days \in AverageDays : GetAverageDailyUsage(provider, days)

SpecAverage == InitPredict /\ [][NextAverage]_vars

(***************************************************************************)
(* Prompt classification.  A prompt is given by the number of signals of   *)
(* each bucket it contains, its length and whether it holds a latency      *)
(* keyword.                                                                *)
(***************************************************************************)
TaskProfile(primaryCapability, contextLength, latencySensitive, qualityThreshold) ==
    [primaryCapability |-> primaryCapability, secondaryCapabilities |-> <<>>,
     hasSecondary |-> FALSE, contextLength |-> contextLength,
     latencySensitive |-> latencySensitive, qualityThreshold |-> qualityThreshold]

Max4(a, b, c, d) == Max(Max(a, b), Max(c, d))

\* classifyPrompt(prompt)
classifyPrompt(codingScore, reasoningScore, creativeScore, simpleScore, length, latency) ==
    LET maxScore == Max4(codingScore, reasoningScore, creativeScore, simpleScore)
        contextLength == IF length < 500 THEN "short"
                         ELSE IF length > 5000 THEN "long"
                         ELSE "medium"
        bucket == IF maxScore = 0 THEN <<"instruction", 60>>
                  ELSE IF simpleScore = maxScore /\ simpleScore >= 2
                  THEN <<"instruction", 40>>
                  ELSE IF codingScore = maxScore THEN <<"coding", 80>>
                  ELSE IF reasoningScore = maxScore THEN <<"reasoning", 75>>
                  ELSE IF creativeScore = maxScore THEN <<"creative", 60>>
                  ELSE <<"instruction", 70>>
    IN TaskProfile(bucket[1], contextLength, latency, bucket[2])

\* the prompt lengths: around the two boundaries
PromptLengths == {499, 500, 5000, 5001}

InitClassify ==
    /\ ApplierAtRest
    /\ ServiceAtRest
    /\ quotas = [p \in Providers |-> NoQuota]
    /\ budgets = [p \in Providers |-> NoBudget]
    /\ usageHistory = <<>>
    /\ now = 0
    /\ ledger = LedgerOp(<<>>, quotas, budgets, TRUE)
    /\ prediction = NoPrediction
    /\ notification = NoNotification
    /\ resetCalc = NoReset
    /\ average = NoAverage
    /\ classified \in [coding : 0..MaxHits, reasoning : 0..MaxHits, creative : 0..MaxHits,
                       simple : 0..MaxHits, length : PromptLengths, latency : BOOLEAN,
                       returned : {FALSE}, profile : {NoTask}]
    /\ registry = RegisteredAll
    /\ matches = NoMatches
    /\ cache = EmptyCache
    /\ capabilities = NoCapabilities

\* classifyPrompt returns
ClassifyPrompt ==
    /\ ~classified.returned
    /\ classified' = [classified EXCEPT
                         !.returned = TRUE,
                         !.profile = classifyPrompt(classified.coding, classified.reasoning,
                                                    classified.creative, classified.simple,
                                                    classified.length, classified.latency)]
    /\ UNCHANGED <<average, registry, matches, cache, capabilities>>
    /\ UNCHANGED <<jobsExists, jobs, agents, applierVars, serviceVars, ledgerVars,
                   resetCalc>>

NextClassify == ClassifyPrompt

SpecClassify == InitClassify /\ [][NextClassify]_vars

(***************************************************************************)
(* The capability scorer                                                   *)
(***************************************************************************)
Scores(coding, reasoning, creative, instruction, context, speed) ==
    [cap \in TaskCapabilities |->
        CASE cap = "coding" -> coding
          [] cap = "reasoning" -> reasoning
          [] cap = "creative" -> creative
          [] cap = "instruction" -> instruction
          [] cap = "context" -> context
          [] cap = "speed" -> speed]

\* findDefaultScores(modelId): the DEFAULT_MODEL_SCORES entry the id resolves
\* to, NoManual (nothing defined) when there is none
findDefaultScores(modelId) ==
    CASE modelId = "claude-haiku-4-5" -> Scores(75, 78, 72, 80, 70, 95)
      [] modelId = "local-default" -> Scores(60, 55, 50, 58, 40, 98)
      [] OTHER -> NoManual

\* mergeScores(defaults, manual)
mergeScores(defaults, manual) ==
    [cap \in TaskCapabilities |->
        IF manual[cap] # UndefNum THEN manual[cap]
        ELSE IF defaults[cap] # UndefNum THEN defaults[cap]
        ELSE 50]

\* inferLatencyClass(speedScore)
inferLatencyClass(speedScore) ==
    IF speedScore >= 85 THEN "fast" ELSE IF speedScore >= 60 THEN "medium" ELSE "slow"

ModelCapabilities(scores, source) ==
    [cached |-> TRUE, scores |-> scores, latencyClass |-> inferLatencyClass(scores["speed"]),
     source |-> source]

\* what getCapabilities builds when the cache has no entry
FreshCapabilities(modelId, manual, hasManual) ==
    ModelCapabilities(mergeScores(findDefaultScores(modelId), manual),
                      IF hasManual THEN "manual" ELSE "infer")

\* getCapabilities(modelId, provider, manualScores): the value returned, and
\* the cache after the call
getCapabilities(c, modelId, provider, manual, hasManual) ==
    IF c[<<provider, modelId>>].cached THEN c[<<provider, modelId>>]
    ELSE FreshCapabilities(modelId, manual, hasManual)

cacheAfterGet(c, modelId, provider, manual, hasManual) ==
    [c EXCEPT ![<<provider, modelId>>] = getCapabilities(c, modelId, provider, manual,
                                                         hasManual)]

\* the manualScores arguments: none, one dimension, two dimensions
ManualScores ==
    {NoManual, [NoManual EXCEPT !["coding"] = 90],
     [NoManual EXCEPT !["context"] = 30, !["speed"] = 10]}
\* the scores external sources report
ExternalScores == {[NoManual EXCEPT !["coding"] = 20], [NoManual EXCEPT !["speed"] = 99]}

\* CapabilityScorer.getCapabilities(modelId, provider, manualScores)
GetCapabilities(modelId, provider, manual, hasManual) ==
    /\ capabilities' = [modelId |-> modelId, provider |-> provider, manual |-> manual,
                        hasManual |-> hasManual, returned |-> TRUE,
                        caps |-> getCapabilities(cache, modelId, provider, manual,
                                                 hasManual)]
    /\ cache' = cacheAfterGet(cache, modelId, provider, manual, hasManual)
    /\ UNCHANGED <<average, classified, registry, matches>>
    /\ UNCHANGED <<jobsExists, jobs, agents, applierVars, serviceVars, ledgerVars,
                   resetCalc>>

\* CapabilityScorer.updateFromExternal(modelId, provider, scores, "huggingface")
UpdateFromExternal(modelId, provider, scores) ==
    /\ LET existing == getCapabilities(cache, modelId, provider, NoManual, FALSE)
           updated == [cap \in TaskCapabilities |->
                          IF scores[cap] # UndefNum THEN scores[cap]
                          ELSE existing.scores[cap]]
       IN cache' = [cache EXCEPT ![<<provider, modelId>>] =
                        [existing EXCEPT !.scores = updated, !.source = "huggingface"]]
    /\ UNCHANGED <<average, classified, registry, matches, capabilities>>
    /\ UNCHANGED <<jobsExists, jobs, agents, applierVars, serviceVars, ledgerVars,
                   resetCalc>>

\* CapabilityScorer.clearCache()
ClearCache ==
    /\ cache' = EmptyCache
    /\ UNCHANGED <<average, classified, registry, matches, capabilities>>
    /\ UNCHANGED <<jobsExists, jobs, agents, applierVars, serviceVars, ledgerVars,
                   resetCalc>>

NextScorer ==
    \/ \E k \in CacheKeys, manual \in ManualScores :
          GetCapabilities(k[2], k[1], manual, manual # NoManual)
    \/ \E k \in CacheKeys, scores \in ExternalScores : UpdateFromExternal(k[2], k[1], scores)
    \/ ClearCache

InitScorer ==
    /\ ApplierAtRest
    /\ ServiceAtRest
    /\ LedgerAtRest

SpecScorer == InitScorer /\ [][NextScorer]_vars

(***************************************************************************)
(* The provider registry and the model matcher.  A match score is the      *)
(* exact number of ScoreDen-ths it amounts to; nan marks the NaN an empty   *)
(* secondary list gives.                                                   *)
(***************************************************************************)
\* hundredths times the tenths of the two weights, halves for the mean of up
\* to two secondary scores, fifths for the context penalty, 500ths for the
\* latency factor
ScoreDen == 100 * 10 * 2 * 5 * 500

Score(num, nan) == [num |-> num, nan |-> nan]
ScoreEq(a, b) == a.num = b.num
ScoreLess(a, b) == a.num < b.num
\* score >= threshold, the threshold in hundredths
ScoreAtLeast(a, threshold) == ~a.nan /\ a.num * 100 >= threshold * ScoreDen

RECURSIVE SumScores(_, _)
\* the scores of the capabilities of the list caps, summed
SumScores(scores, caps) ==
    IF caps = <<>> THEN 0 ELSE scores[Head(caps)] + SumScores(scores, Tail(caps))

\* ModelMatcher.scoreModelForTask(caps, task)
scoreModelForTask(scores, task) ==
    LET n == IF task.hasSecondary THEN Len(task.secondaryCapabilities) ELSE 1
        secondary == IF task.hasSecondary
                     THEN SumScores(scores, task.secondaryCapabilities) ELSE 0
        weighted == (6 * scores[task.primaryCapability] * n + 2 * secondary) * (2 \div n)
        poorContext == task.contextLength = "long" /\ scores["context"] < 70
        penalised == IF poorContext THEN weighted * 4 ELSE weighted * 5
        score == IF task.latencySensitive THEN penalised * (400 + scores["speed"])
                 ELSE penalised * 500
    IN IF n = 0 THEN Score(0, TRUE)
       ELSE IF score > ScoreDen THEN Score(ScoreDen, FALSE)
       ELSE Score(score, FALSE)

\* quota.limit > 0 and used / limit >= 1
Exhausted(q) == q.tracked /\ q.limit > 0 /\ q.used >= q.limit

\* ProviderRegistry.getAvailable(state): the providers in registration order;
\* ignoresQuota leaves the counters out
getAvailable_ignoresQuota(reg, q) ==
    SelectSeq(RegistrationOrder, LAMBDA p : reg[p].isAvailable)

getAvailable(reg, q) ==
    SelectSeq(RegistrationOrder, LAMBDA p : reg[p].isAvailable /\ ~Exhausted(q[p]))

\* provider.config.tier ?? "standard"
TierOf(provider) == IF provider.tier = Undef THEN "standard" ELSE provider.tier

\* tierOrder.indexOf(tier)
TierIndex(tier) ==
    CASE tier = "local" -> 0
      [] tier = "free" -> 1
      [] tier = "budget" -> 2
      [] tier = "standard" -> 3
      [] tier = "premium" -> 4
      [] OTHER -> 0 - 1

RECURSIVE Candidates(_, _, _)
\* the (provider, model) pairs the two loops of findSuitableModels visit, in
\* order
Candidates(reg, providers, preferredTiers) ==
    IF providers = <<>> THEN <<>>
    ELSE LET provider == reg[Head(providers)]
             skipped == Len(preferredTiers) > 0 /\ ~Includes(preferredTiers, TierOf(provider))
             here == IF skipped THEN <<>>
                     ELSE [i \in 1..Len(provider.models) |-> <<provider.id, provider.models[i]>>]
         IN here \o Candidates(reg, Tail(providers), preferredTiers)

ModelMatch(model, provider, score, tier) ==
    [model |-> model, provider |-> provider, score |-> score, tier |-> tier]

\* the comparator of matches.sort is negative: a goes before b; noTieBreak
\* compares the scores only
SortsBefore_noTieBreak(a, b) == ScoreLess(b.score, a.score)

SortsBefore(a, b) ==
    IF ~ScoreEq(a.score, b.score) THEN ScoreLess(b.score, a.score)
    ELSE TierIndex(a.tier) < TierIndex(b.tier)

RECURSIVE InsertMatch(_, _)
\* x put into the sorted list after every entry it does not go before
InsertMatch(x, sorted) ==
    IF sorted = <<>> THEN <<x>>
    ELSE IF SortsBefore(x, Head(sorted)) THEN <<x>> \o sorted
    ELSE <<Head(sorted)>> \o InsertMatch(x, Tail(sorted))

RECURSIVE SortMatches(_)
\* matches.sort(comparator): a stable sort
SortMatches(list) ==
    IF list = <<>> THEN <<>>
    ELSE InsertMatch(list[Len(list)], SortMatches(SubSeq(list, 1, Len(list) - 1)))

RECURSIVE cacheAfterVisits(_, _)
\* the cache after getCapabilities(modelId, provider.id) of every pair visited
cacheAfterVisits(c, pairs) ==
    IF pairs = <<>> THEN c
    ELSE cacheAfterVisits(cacheAfterGet(c, Head(pairs)[2], Head(pairs)[1], NoManual, FALSE),
                          Tail(pairs))

\* ModelMatcher.findSuitableModels(task, state, preferredTiers): the list
\* returned
findSuitableModels(reg, c, q, task, preferredTiers) ==
    LET pairs == Candidates(reg, getAvailable(reg, q), preferredTiers)
        scored == [i \in 1..Len(pairs) |->
                      ModelMatch(pairs[i][2], pairs[i][1],
                                 scoreModelForTask(
                                     getCapabilities(c, pairs[i][2], pairs[i][1],
                                                     NoManual, FALSE).scores, task),
                                 TierOf(reg[pairs[i][1]]))]
    IN SortMatches(SelectSeq(scored,
                             LAMBDA m : ScoreAtLeast(m.score, task.qualityThreshold)))

\* one call of findSuitableModels
FindSuitableModels(task, preferredTiers) ==
    /\ matches' = [task |-> task, preferredTiers |-> preferredTiers, returned |-> TRUE,
                   quotas |-> quotas,
                   isAvailable |-> [p \in Providers |-> registry[p].isAvailable],
                   list |-> findSuitableModels(registry, cache, quotas, task,
                                               preferredTiers)]
    /\ cache' = cacheAfterVisits(cache, Candidates(registry, getAvailable(registry, quotas),
                                                   preferredTiers))
    /\ UNCHANGED <<average, classified, registry, capabilities>>
    /\ UNCHANGED <<jobsExists, jobs, agents, applierVars, serviceVars, ledgerVars,
                   resetCalc>>

\* ProviderRegistry.setAvailable(id, available)
SetAvailable(id, available) ==
    /\ registry' = [registry EXCEPT ![id].isAvailable = available]
    /\ UNCHANGED <<average, classified, matches, cache, capabilities>>
    /\ UNCHANGED <<jobsExists, jobs, agents, applierVars, serviceVars, ledgerVars,
                   resetCalc>>

\* a TaskProfile handed to the matcher
MatchTask(primaryCapability, secondaryCapabilities, hasSecondary, contextLength, latencySensitive, qualityThreshold) ==
    [primaryCapability |-> primaryCapability,
     secondaryCapabilities |-> secondaryCapabilities, hasSecondary |-> hasSecondary,
     contextLength |-> contextLength, latencySensitive |-> latencySensitive,
     qualityThreshold |-> qualityThreshold]

\* the secondaryCapabilities of a task: absent, one, two
SecondaryLists == {<<>>, <<"speed">>, <<"instruction", "speed">>}

MatchTasks ==
    {MatchTask(primary, secondary, secondary # <<>>, contextLength, latency, threshold) :
        primary \in {"coding", "context"}, secondary \in SecondaryLists,
        contextLength \in {"short", "long"}, latency \in BOOLEAN,
        threshold \in {30, 42, 60}}

\* the preferredTiers arguments: none, the budget tier
TierFilters == {<<>>, <<"budget">>}

\* the caches a matcher call can find: empty, or one entry made by an earlier
\* getCapabilities call with overrides
MatchCaches ==
    {EmptyCache} \cup
    {cacheAfterGet(EmptyCache, k[2], k[1], manual, TRUE) :
        k \in CacheKeys, manual \in ManualScores \ {NoManual}}

InitMatch ==
    /\ ApplierAtRest
    /\ ServiceAtRest
    /\ quotas \in [Providers -> {NoQuota, Quota(4, 4, 0, 0)}]
    /\ ~quotas["openrouter"].tracked
    /\ budgets = [p \in Providers |-> NoBudget]
    /\ usageHistory = <<>>
    /\ now = 0
    /\ ledger = LedgerOp(<<>>, quotas, budgets, TRUE)
    /\ prediction = NoPrediction
    /\ notification = NoNotification
    /\ resetCalc = NoReset
    /\ average = NoAverage
    /\ classified = NoClassified
    /\ registry \in {[RegisteredAll EXCEPT !["openrouter"].isAvailable = available] :
                        available \in BOOLEAN}
    /\ matches = NoMatches
    /\ cache \in MatchCaches
    /\ capabilities = NoCapabilities

NextMatch ==
    \E task \in MatchTasks, preferredTiers \in TierFilters :
        FindSuitableModels(task, preferredTiers)

SpecMatch == InitMatch /\ [][NextMatch]_vars

\* the tasks asked for while the counters move
MatcherTasks ==
    {MatchTask("coding", <<>>, FALSE, "short", FALSE, 30),
     MatchTask("instruction", <<"speed">>, TRUE, "short", TRUE, 42)}

\* the completions recorded while the matcher is asked
MatcherEvents == {e \in UsageEvents : e.cost # UndefNum}

\* any sequence of tracker and registry operations, then the matcher is asked
\* about the router state they left
NextMatcher ==
    \/ \E e \in MatcherEvents : ~matches.returned /\ Record(e.provider, e.tokensIn, e.tokensOut, e.cost, "ok")
    \/ \E provider \in Providers, used \in UsedValues : ~matches.returned /\ SetUsage(provider, used, "ok")
    \/ \E provider \in Providers : ~matches.returned /\ ResetQuota(provider, "ok")
    \/ \E id \in Providers, available \in BOOLEAN : ~matches.returned /\ SetAvailable(id, available)
    \/ \E task \in MatcherTasks : FindSuitableModels(task, <<>>)

SpecMatcher == InitLedger /\ [][NextMatcher]_vars

\* what the quota API reports for a provider: no limit or a limit of 5
FetchedLimits == {0, 5}

\* a router whose api-based provider gets its counter from the quota API:
\* the counters, the notifications and the predictions over one state
NextUnbounded ==
    \/ \E limit \in FetchedLimits, used \in UsedValues : FetchApiBasedQuotas("openrouter", limit, used, "ok")
    \/ \E e \in MatcherEvents : Record(e.provider, e.tokensIn, e.tokensOut, e.cost, "ok")
    \/ \E provider \in Providers, used \in UsedValues : SetUsage(provider, used, "ok")
    \/ \E provider \in Providers : Predict(provider)

SpecUnbounded == InitLedger /\ [][NextUnbounded]_vars

(***************************************************************************)
(* Properties of the applier                                               *)
(***************************************************************************)
\* the model field an action on (ttype, id) addresses, as held in store st
ModelField(st, ttype, id) ==
    IF ttype = "agent"
    THEN IF id \in DOMAIN st.agents THEN st.agents[id].primary ELSE Undef
    ELSE IF FindJob(st.jobs, id) = 0 THEN Undef
         ELSE st.jobs[FindJob(st.jobs, id)].model

\* the result was reported by a live applier as applied, with rollbackInfo
LiveAppliedWithInfo(res) ==
    ~dryRun /\ res.status = StatusApplied /\ res.rollbackInfo.present

\* C1: rollback of a result a live applier reported applied with rollbackInfo
\* (change_model on a job or an agent, route_to_local) returns true and
\* leaves the target's model field at the value the store held immediately
\* before that action was applied.  Stated for the results whose action named
\* the stored value as its from, and for route_to_local, which names none.
C1_RollbackRestoresOriginal ==
    (/\ last.op = "rollback" /\ last.io = "ok"
     /\ LiveAppliedWithInfo(last.res)
     /\ \/ plan[last.k].type = "route_to_local"
        \/ last.res.rollbackInfo.from
             = ModelField(snaps[last.k], last.res.action.ttype, last.res.action.id))
        => /\ last.ret
           /\ ModelField(CurStore, last.res.action.ttype, last.res.action.id)
                = ModelField(snaps[last.k], last.res.action.ttype, last.res.action.id)

\* C2: rollback writes only for a result that was applied in live mode, has
\* rollbackInfo and is reversible; for any other result it returns false and
\* leaves both stores unchanged, and the applier's mode is what it was.
C2_RollbackOnlyLiveApplied ==
    (last.op = "rollback"
     /\ ~(LiveAppliedWithInfo(last.res) /\ last.res.action.reversible))
        => /\ ~last.ret
           /\ CurStore = last.before
           /\ dryRun = last.dry

\* C3: a reversible change_model or add_fallback action that applyAction
\* reports applied carries rollbackInfo.
C3_ReversibleCarriesRollbackInfo ==
    (last.op = "apply" /\ ~last.dry /\ last.action.reversible
     /\ last.action.type \in {"change_model", "add_fallback"}
     /\ last.res.status = StatusApplied)
        => last.res.rollbackInfo.present

\* C4: a preview-mode applyPlan leaves the job store and the agent store as
\* they were before the call, whatever the actions of the plan.
C4_PreviewLeavesStores ==
    (dryRun /\ rollbacks = 0) => \A i \in 1..Len(snaps) : snaps[i] = CurStore

C4_Witness ==
    /\ pc = "done" /\ dryRun /\ rollbacks = 0
    /\ Len(results) = 2
    /\ results[1].action.type = "change_model" /\ results[1].status = StatusApplied
    /\ results[1].action.ttype = "cron"
    /\ ModelField(CurStore, "cron", results[1].action.id) = results[1].action.from
    /\ plan[2].type = "remove_fallback" /\ results[2].status = StatusApplied
    /\ Includes(agents[plan[2].id].fallbacks, plan[2].model)

\* the reversible actions generatePlan emits, aimed at a target that exists
EmittedReversible(st, a) ==
    \/ /\ a.type = "change_model" /\ a.ttype = "cron"
       /\ st.jobsExists /\ FindJob(st.jobs, a.id) > 0
    \/ /\ a.type \in {"change_model", "add_fallback"} /\ a.ttype = "agent"
       /\ st.agents[a.id].exists

\* C5: in preview mode applyPlan never halts early and returns one result
\* per plan action, in plan order, each with status applied and rollbackInfo.
\* Stated for plans of the reversible actions generatePlan emits.
C5_PreviewAllAppliedWithInfo ==
    (/\ pc = "done" /\ dryRun
     /\ \A i \in 1..Len(plan) : EmittedReversible(CurStore, plan[i]))
        => /\ Len(results) = Len(plan)
           /\ \A i \in 1..Len(results) :
                /\ results[i].action.id = plan[i].id
                /\ results[i].status = StatusApplied
                /\ results[i].rollbackInfo.present

\* C6: a live applyPlan runs the plan's actions in array order and stops at
\* the first failed one: the results are a prefix of the plan, nothing after
\* the first failure is executed or changes a store, and a skipped action
\* does not stop the queue.
C6_LiveStopsAtFirstFailure ==
    ~dryRun =>
        /\ Len(results) = idx /\ idx <= Len(plan)
        /\ \A i \in 1..Len(results) :
            /\ results[i].action.id = plan[i].id
            /\ \E io \in IoOutcomes :
                results[i] = applyAction(snaps[i], FALSE, plan[i], io).res
        /\ \A i \in 1..(Len(results) - 1) : results[i].status # StatusFailed
        /\ (pc = "applying" /\ Len(results) > 0)
            => results[Len(results)].status # StatusFailed
        /\ pc = "done"
            => \/ Len(results) = Len(plan)
               \/ results[Len(results)].status = StatusFailed
        /\ (pc = "done" /\ rollbacks = 0 /\ Len(results) > 0
            /\ results[Len(results)].status = StatusFailed)
            => CurStore = snaps[Len(snaps)]

C6_Witness ==
    /\ pc = "done" /\ ~dryRun /\ rollbacks = 0
    /\ Len(plan) = 2 /\ Len(results) = 1
    /\ results[1].status = StatusFailed
    /\ applyAction(CurStore, FALSE, plan[2], "ok").st # CurStore

\* C7: a live change_model on job J that is reported applied sets J's model
\* to changes.to and changes nothing else: every other job and every other
\* field of J, and the agent store, are as before.
C7_ChangeModelTouchesOnlyModel ==
    (/\ last.op = "apply" /\ ~last.dry
     /\ last.action.type = "change_model" /\ last.action.ttype = "cron"
     /\ last.res.status = StatusApplied)
        => LET i == FindJob(last.before.jobs, last.action.id)
           IN /\ i > 0
              /\ Len(jobs) = Len(last.before.jobs)
              /\ jobs[i].model = last.action.to
              /\ jobs[i].id = last.before.jobs[i].id
              /\ jobs[i].enabled = last.before.jobs[i].enabled
              /\ \A k \in 1..Len(jobs) : k # i => jobs[k] = last.before.jobs[k]
              /\ agents = last.before.agents
              /\ jobsExists = last.before.jobsExists

C7_Witness ==
    /\ last.op = "apply" /\ ~last.dry
    /\ last.action.type = "change_model" /\ last.action.ttype = "cron"
    /\ last.res.status = StatusApplied
    /\ Len(jobs) >= 2
    /\ jobs # last.before.jobs
    /\ \E k \in 1..Len(jobs) : jobs[k].id # last.action.id /\ jobs[k].model # last.action.to

\* the store an action's handler reads and writes, "none" when it has none
HandlerStore(a) ==
    IF a.type = "route_to_local" THEN "cron"
    ELSE IF a.type = "change_model" /\ a.ttype \in {"cron", "agent"} THEN a.ttype
    ELSE IF a.type \in {"add_fallback", "remove_fallback"} /\ a.ttype = "agent" THEN "agent"
    ELSE "none"

\* the job or agent of that kind named id is missing from store st
Missing(st, kind, id) ==
    IF kind = "cron" THEN ~st.jobsExists \/ FindJob(st.jobs, id) = 0
    ELSE ~(id \in DOMAIN st.agents /\ st.agents[id].exists)

C9_SplitJobLiveSkipped ==
    (last.op = "apply" /\ last.action.type = "split_job")
        => /\ ~last.dry => last.res.status = StatusSkipped
           /\ CurStore = last.before
           /\ last.res.status = StatusApplied => last.dry

C9_Witness ==
    /\ last.op = "apply" /\ last.action.type = "split_job" /\ ~last.dry
    /\ last.res.status = StatusSkipped
    /\ FindJob(jobs, last.action.id) > 0
    /\ \E i \in 1..Len(results) : results[i].status = StatusSkipped /\ i < Len(results)

(***************************************************************************)
(* Properties of the service                                               *)
(***************************************************************************)
\* C10: writes to the stores are serialized: an auto-optimization cycle never
\* starts applying its plan (its step from the import to the first action)
\* while another cycle or an operator's apply still has actions of its plan
\* unapplied.
C10_CycleWaitsForPlanInFlight ==
    [][\A r, q \in 1..MaxRuns :
          (r # q /\ runs[r].kind = "timer" /\ runs[r].pc = "import"
                 /\ runs'[r].pc = "applying")
              => ~(~runs[q].dry /\ InFlight(runs[q]))]_vars

\* C11: after stop() has run, the periodic cycle is cancelled: no timer
\* callback starts a cycle (generates a plan and goes on to apply it) once
\* the service is stopped.
C11_NoCycleAfterStop ==
    [][service = "stopped"
          => \A r \in 1..MaxRuns : ~(runs[r].pc = "idle" /\ runs'[r].kind = "timer")]_vars

C13_UsedDecreasesOnlyOnResetOrSet ==
    [][\A p \in Providers :
          (quotas[p].tracked /\ quotas'[p].tracked /\ quotas'[p].used < quotas[p].used)
              => \/ \E io \in SaveOutcomes : ResetQuota(p, io)
                 \/ \E used \in UsedValues, io \in SaveOutcomes : SetUsage(p, used, io)]_vars

RECURSIVE SumTokens(_, _)
\* tokensIn + tokensOut summed over the records of provider p in h
SumTokens(h, p) ==
    IF h = <<>> THEN 0
    ELSE (IF Head(h).provider = p THEN Head(h).tokensIn + Head(h).tokensOut ELSE 0)
         + SumTokens(Tail(h), p)

RECURSIVE SumCost(_, _)
\* the costs given with the records of provider p in h, summed
SumCost(h, p) ==
    IF h = <<>> THEN 0
    ELSE (IF Head(h).provider = p /\ Head(h).cost # UndefNum THEN Head(h).cost ELSE 0)
         + SumCost(Tail(h), p)

\* C14: recording is additive and order-independent: as long as only usage
\* events were delivered, in whatever order, each tracked provider's used is
\* its initial value plus the tokensIn + tokensOut of its events, and each
\* tracked budget's spend its initial value plus the costs given.
C14_RecordingAdditive ==
    ledger.onlyRecords
        => \A p \in Providers :
              /\ quotas[p].tracked
                    => quotas[p].used = ledger.quotas0[p].used + SumTokens(ledger.appended, p)
              /\ budgets[p].tracked
                    => budgets[p].currentSpend
                         = ledger.budgets0[p].currentSpend + SumCost(ledger.appended, p)

\* two different events of one tracked, budgeted provider were delivered,
\* the one with the cost last
C14_Witness ==
    /\ ledger.onlyRecords
    /\ Len(ledger.appended) >= 2
    /\ quotas["anthropic"].tracked /\ budgets["anthropic"].tracked
    /\ ledger.appended[1].provider = "anthropic"
    /\ ledger.appended[2].provider = "anthropic"
    /\ ledger.appended[1].cost = UndefNum
    /\ ledger.appended[2].cost > 0
    /\ ledger.appended[2].tokensIn > 0

\* C15: the usage ledger is bounded and append-only: its length never exceeds
\* the size cap, and what it retains is the newest records appended,
\* unmodified and in the order they were appended.
C15_LedgerBoundedAppendOnly ==
    LET n == Len(ledger.appended)
        k == Len(usageHistory)
    IN /\ k <= MAX_USAGE_HISTORY
       /\ k <= n
       /\ usageHistory = SubSeq(ledger.appended, n - k + 1, n)

(***************************************************************************)
(* Properties of the predictor                                             *)
(***************************************************************************)
\* the records of provider p in the trailing 24 hours
RecentRecords(p) ==
    SelectSeq(usageHistory, LAMBDA r : r.provider = p /\ r.timestamp >= now - 24 * 60)

\* the prediction at hand was made for tracked provider p
PredictedFor(p) == prediction.provider = p /\ quotas[p].tracked

\* C16: for a tracked provider whose counter has used >= limit, predict
\* returns willExhaust = true, hoursUntilExhaustion = 0 and confidence = 1,
\* whatever the history holds.
C16_ExhaustedIsCertain ==
    \A p \in Providers :
        (PredictedFor(p) /\ quotas[p].used >= quotas[p].limit)
            => /\ prediction.willExhaust
               /\ prediction.hasTime
               /\ prediction.hoursNum = 0
               /\ prediction.confidence = 720

\* a prediction for a counter exactly at its positive limit, with records of
\* the provider in the history
C16_Witness ==
    \E p \in Providers :
        /\ PredictedFor(p)
        /\ quotas[p].limit > 0 /\ quotas[p].used = quotas[p].limit
        /\ Len(RecentRecords(p)) = MaxHistory
        /\ prediction.willExhaust

\* C17: for a provider with used < limit and no usage record in the
\* history, predict returns willExhaust = false and confidence = 0.
C17_NoHistoryNoConfidence ==
    \A p \in Providers :
        (PredictedFor(p) /\ quotas[p].used < quotas[p].limit
                         /\ \A i \in 1..Len(usageHistory) : usageHistory[i].provider # p)
            => /\ ~prediction.willExhaust
               /\ prediction.confidence = 0

\* C18: when used < limit and all of the provider's records of the trailing
\* 24 hours are less than 6 minutes old, predict makes no forecast
\* (willExhaust = false, rate 0) and returns confidence 0.1.
C18_ShortSpanLowConfidence ==
    \A p \in Providers :
        (PredictedFor(p) /\ quotas[p].used < quotas[p].limit
                         /\ Len(RecentRecords(p)) > 0
                         /\ \A i \in 1..Len(RecentRecords(p)) :
                               now - RecentRecords(p)[i].timestamp < 6)
            => /\ ~prediction.willExhaust
               /\ prediction.rateNum = 0
               /\ prediction.confidence = 72

\* C19: with used < limit and a positive usage rate, willExhaust is false
\* exactly when the scheduled nextReset comes at or before the predicted
\* exhaustion time now + remaining/rate; otherwise willExhaust is true with
\* hoursUntilExhaustion = remaining/rate; the exhaustion time and the hours
\* are present exactly when willExhaust is true.
C19_ResetBeforeExhaustion ==
    \A p \in Providers :
        (PredictedFor(p) /\ quotas[p].used < quotas[p].limit /\ prediction.rateNum > 0)
            => LET remaining == quotas[p].limit - quotas[p].used
                   resetFirst ==
                       /\ quotas[p].nextReset # 0
                       /\ (quotas[p].nextReset - now) * prediction.rateNum
                              <= remaining * 60 * prediction.rateDen
               IN /\ prediction.willExhaust <=> ~resetFirst
                  /\ prediction.willExhaust
                        => prediction.hoursNum * prediction.rateNum
                              = remaining * prediction.rateDen * prediction.hoursDen
                  /\ prediction.hasTime <=> prediction.willExhaust

\* the reset is scheduled for the very minute the quota would run out, and
\* the prediction says the quota will not be exhausted
C19_Witness ==
    \E p \in Providers :
        /\ PredictedFor(p) /\ quotas[p].used < quotas[p].limit /\ prediction.rateNum > 0
        /\ quotas[p].nextReset > now
        /\ (quotas[p].nextReset - now) * prediction.rateNum
              = (quotas[p].limit - quotas[p].used) * 60 * prediction.rateDen
        /\ ~prediction.willExhaust

\* C20: for every daily, weekly or monthly schedule, whatever its hour,
\* dayOfWeek, dayOfMonth and timezone, calculateNextReset returns an instant
\* strictly later than the instant it was called at.
C20_NextResetInFuture ==
    (resetCalc.returned /\ resetCalc.type \in {"daily", "weekly", "monthly"})
        => resetCalc.next > resetCalc.at

\* without a timezone the daily and weekly results are later than the call
ResetLocalDailyWeeklyInFuture ==
    (resetCalc.returned /\ resetCalc.type \in {"daily", "weekly"}
     /\ resetCalc.timezone \in {Undef, "UTC"})
        => resetCalc.next > resetCalc.at

\* a monthly result is not later than the call only through the zone shift or
\* the clamp to the last day of the month
ResetMonthlyPastOnlyWhenClamped ==
    (resetCalc.returned /\ resetCalc.type = "monthly"
     /\ resetCalc.timezone \in {Undef, "UTC"} /\ resetCalc.next <= resetCalc.at)
        => /\ resetCalc.dayOfMonth > MonthDays[getMonth(resetCalc.at) + 1]
           /\ getDate(resetCalc.next) = MonthDays[getMonth(resetCalc.next) + 1]

\* the month (counted from January of year 0) a monthly reset asked for at
\* instant t is due in: this month while its day, clamped to the month's
\* length, at the hour is still ahead, the month after otherwise
MonthIndex(t) == getFullYear(t) * 12 + getMonth(t)
DaysIn(monthIndex) == MonthDays[(monthIndex % 12) + 1]
LastDayAt(monthIndex, hour) == MakeDate(0, monthIndex, DaysIn(monthIndex), hour, 0)
TargetMonth(t, dayOfMonth, hour) ==
    IF MakeDate(0, MonthIndex(t), Min(dayOfMonth, DaysIn(MonthIndex(t))), hour, 0) > t
    THEN MonthIndex(t)
    ELSE MonthIndex(t) + 1

\* the monthly call returned and its dayOfMonth exceeds the length of the
\* month the reset is due in
MonthlyOverflows ==
    /\ resetCalc.returned
    /\ resetCalc.type = "monthly"
    /\ OrElse(resetCalc.dayOfMonth, 1)
          > DaysIn(TargetMonth(resetCalc.at, OrElse(resetCalc.dayOfMonth, 1),
                               OrElse(resetCalc.hour, 0)))

\* C21: a monthly schedule whose dayOfMonth exceeds the number of days of the
\* target month gives the last day of that month at the configured hour, and
\* never a day of the following month.
C21_MonthlyClampsToLastDay ==
    MonthlyOverflows
        => LET target == TargetMonth(resetCalc.at, OrElse(resetCalc.dayOfMonth, 1),
                                     OrElse(resetCalc.hour, 0))
           IN /\ resetCalc.next = LastDayAt(target, OrElse(resetCalc.hour, 0))
              /\ MonthIndex(resetCalc.next) <= target

\* the same without a zone of the offsets table
MonthlyClampsWithoutZone ==
    (MonthlyOverflows /\ TimezoneOffset(resetCalc.timezone) = UndefNum)
        => LET target == TargetMonth(resetCalc.at, OrElse(resetCalc.dayOfMonth, 1),
                                     OrElse(resetCalc.hour, 0))
           IN resetCalc.next = LastDayAt(target, OrElse(resetCalc.hour, 0))

\* a day of the following month is never returned, with or without a zone
MonthlyNeverFollowingMonth ==
    MonthlyOverflows
        => MonthIndex(resetCalc.next)
              <= TargetMonth(resetCalc.at, OrElse(resetCalc.dayOfMonth, 1),
                             OrElse(resetCalc.hour, 0))

\* the instant k days after today's hour:00
WeeklySlot(t, hour, k) == setHours(t, hour) + k * 48

\* the earliest instant after t on weekday dayOfWeek at hour:00
WeeklyEarliest(t, dayOfWeek, hour) ==
    LET ok(k) == getDay(WeeklySlot(t, hour, k)) = dayOfWeek /\ WeeklySlot(t, hour, k) > t
    IN WeeklySlot(t, hour, CHOOSE k \in 0..7 : ok(k) /\ \A j \in 0..(k - 1) : ~ok(j))

\* the weekly call returned what the three cases of the rule give
WeeklyAsRule(t, dayOfWeek, hour, next) ==
    /\ next = WeeklyEarliest(t, dayOfWeek, hour)
    /\ (getDay(t) = dayOfWeek /\ t < setHours(t, hour)) => next = setHours(t, hour)
    /\ (getDay(t) = dayOfWeek /\ t >= setHours(t, hour))
          => next = setHours(t, hour) + 7 * 48
    /\ getDay(t) # dayOfWeek
          => /\ getDay(next) = dayOfWeek
             /\ getHours(next) = hour /\ HalfHour(next) = 0
             /\ next > t /\ next - t < 7 * 48

\* C22: a weekly schedule (dayOfWeek d, hour h) gives the earliest instant
\* after now on weekday d at h:00: the same day at h:00 when called on day d
\* before h:00, exactly 7 days after that day's h:00 when called on day d at or
\* after h:00, and the next d, less than 7 days ahead, on any other weekday.
C22_WeeklyEarliestOccurrence ==
    (resetCalc.returned /\ resetCalc.type = "weekly")
        => WeeklyAsRule(resetCalc.at, OrElse(resetCalc.dayOfWeek, 0),
                        OrElse(resetCalc.hour, 0), resetCalc.next)

\* the same without a zone of the offsets table
WeeklyAsRuleWithoutZone ==
    (resetCalc.returned /\ resetCalc.type = "weekly"
     /\ TimezoneOffset(resetCalc.timezone) = UndefNum)
        => WeeklyAsRule(resetCalc.at, OrElse(resetCalc.dayOfWeek, 0),
                        OrElse(resetCalc.hour, 0), resetCalc.next)

\* the timestamps of provider p's records inside a window of days before now
WindowStamps(p, days) ==
    {usageHistory[i].timestamp : i \in {j \in 1..Len(usageHistory) :
        /\ usageHistory[j].provider = p
        /\ usageHistory[j].timestamp >= now - days * 24 * 60}}

\* minutes since the earliest record of the window
WindowElapsed(p, days) ==
    now - (CHOOSE first \in WindowStamps(p, days) :
              \A other \in WindowStamps(p, days) : first <= other)

\* total tokens of provider p's records inside the window
WindowTotal(p, days) ==
    SumTokens(SelectSeq(usageHistory,
                        LAMBDA r : r.timestamp >= now - days * 24 * 60), p)

\* C23: getAverageDailyUsage(provider, days) is the window's total tokens
\* divided by max(1, days elapsed since the earliest record in the window),
\* and so is never smaller than the naive average total / days.
C23_AverageOverElapsedDays ==
    average.returned
        => LET p == average.provider
               days == average.days
           IN /\ average.total = WindowTotal(p, days)
              /\ IF WindowStamps(p, days) = {}
                 THEN average.num = 0
                 ELSE average.num * Max(24 * 60, WindowElapsed(p, days))
                         = WindowTotal(p, days) * 24 * 60 * average.den
              /\ average.num * days >= WindowTotal(p, days) * average.den

\* a 7-day window whose only usage is in the last hour: the average is the
\* total over one day, above the total over seven
C23_Witness ==
    /\ average.returned
    /\ average.days = 7
    /\ average.total > 0
    /\ WindowStamps(average.provider, 7) # {}
    /\ WindowElapsed(average.provider, 7) <= 60
    /\ average.num = average.total * average.den
    /\ average.num * 7 > average.total * average.den

\* the highest hit count of the four buckets of the classified prompt
ClassifiedMax ==
    Max4(classified.coding, classified.reasoning, classified.creative, classified.simple)

\* the capability buckets with the highest hit count, with their thresholds
ClassifiedWinners ==
    {b \in {<<"coding", 80, classified.coding>>, <<"reasoning", 75, classified.reasoning>>,
            <<"creative", 60, classified.creative>>} : b[3] = ClassifiedMax}

\* C24: classifyPrompt picks the highest-scoring bucket with its fixed
\* threshold (coding 0.8, reasoning 0.75, creative 0.6), lets the simple
\* bucket win (instruction, 0.4) only when it has at least 2 hits, and in
\* every remaining case returns instruction with qualityThreshold 0.6.
C24_HighestBucketWins ==
    classified.returned
        => LET profile == classified.profile
           IN IF classified.simple = ClassifiedMax /\ classified.simple >= 2
              THEN profile.primaryCapability = "instruction"
                   /\ profile.qualityThreshold = 40
              ELSE IF ClassifiedMax > 0 /\ ClassifiedWinners # {}
              THEN \E b \in ClassifiedWinners :
                      profile.primaryCapability = b[1] /\ profile.qualityThreshold = b[2]
              ELSE profile.primaryCapability = "instruction"
                   /\ profile.qualityThreshold = 60

\* everything of the rule but the threshold of a lone simple hit
ClassifiedLoneSimpleHit ==
    (classified.returned /\ classified.profile.qualityThreshold = 70)
        => /\ classified.simple = 1
           /\ classified.coding = 0 /\ classified.reasoning = 0 /\ classified.creative = 0
           /\ classified.profile.primaryCapability = "instruction"

\* C28: whenever getCapabilities is called with overrides, in any order
\* relative to earlier getCapabilities, updateFromExternal or clearCache calls
\* for the same (provider, modelId), each overridden dimension of the returned
\* scores is the override value and each other dimension the resolved default
\* (0.5 when no default is found).
C28_OverridesAlwaysApplied ==
    (capabilities.returned /\ capabilities.hasManual)
        => \A cap \in TaskCapabilities :
              capabilities.caps.scores[cap]
                 = IF capabilities.manual[cap] # UndefNum THEN capabilities.manual[cap]
                   ELSE IF findDefaultScores(capabilities.modelId)[cap] # UndefNum
                   THEN findDefaultScores(capabilities.modelId)[cap]
                   ELSE 50

\* the scores the claim gives for a call with the overrides manual
OverriddenScores(modelId, manual) ==
    [cap \in TaskCapabilities |->
        IF manual[cap] # UndefNum THEN manual[cap]
        ELSE IF findDefaultScores(modelId)[cap] # UndefNum
        THEN findDefaultScores(modelId)[cap]
        ELSE 50]

\* a call with overrides that finds no cache entry returns the merged scores
OverridesAppliedOnMiss ==
    [][(/\ capabilities' # capabilities
        /\ capabilities'.hasManual
        /\ ~cache[<<capabilities'.provider, capabilities'.modelId>>].cached)
          => capabilities'.caps.scores
                = OverriddenScores(capabilities'.modelId, capabilities'.manual)]_vars

\* the score the scorer holds for a returned match on capability cap
MatchedScore(m, cap) == cache[<<m.provider, m.model>>].scores[cap]

\* C25: for every task profile, with or without secondary capabilities,
\* findSuitableModels never returns a model whose score on the task's primary
\* capability is below task.qualityThreshold.
C25_PrimaryScoreAboveThreshold ==
    matches.returned
        => \A i \in 1..Len(matches.list) :
              MatchedScore(matches.list[i], matches.task.primaryCapability)
                 >= matches.task.qualityThreshold

\* the same for the task profiles without secondary capabilities
PrimaryScoreAboveThresholdAlone ==
    (matches.returned /\ ~matches.task.hasSecondary)
        => \A i \in 1..Len(matches.list) :
              MatchedScore(matches.list[i], matches.task.primaryCapability)
                 >= matches.task.qualityThreshold

\* every returned match has a combined score of at least the threshold
CombinedScoreAboveThreshold ==
    matches.returned
        => \A i \in 1..Len(matches.list) :
              ScoreAtLeast(matches.list[i].score, matches.task.qualityThreshold)

\* C26: the list returned by findSuitableModels is ordered by score
\* descending, and two entries with equal score are in ascending cost-tier
\* order local < free < budget < standard < premium.
C26_SortedByScoreThenTier ==
    matches.returned
        => \A i, j \in 1..Len(matches.list) :
              i < j => /\ ~ScoreLess(matches.list[i].score, matches.list[j].score)
                       /\ ScoreEq(matches.list[i].score, matches.list[j].score)
                             => TierIndex(matches.list[i].tier)
                                   <= TierIndex(matches.list[j].tier)

\* two matches of equal score, the cheaper tier registered after the dearer
\* one, are returned cheaper first, behind a match of higher score
C26_Witness ==
    /\ matches.returned
    /\ Len(matches.list) >= 3
    /\ \E i, j \in 1..Len(matches.list) :
          /\ i < j
          /\ ScoreEq(matches.list[i].score, matches.list[j].score)
          /\ matches.list[i].tier = "budget" /\ matches.list[j].tier = "premium"
    /\ ScoreLess(matches.list[Len(matches.list)].score, matches.list[1].score)

\* model m of provider p is in the returned list
Returned(p, m) ==
    \E i \in 1..Len(matches.list) :
        matches.list[i].provider = p /\ matches.list[i].model = m

\* provider p was usable when findSuitableModels was called
UsableAtCall(p) == matches.isAvailable[p] /\ ~Exhausted(matches.quotas[p])

\* C27: after any sequence of record, setUsage and resetQuota operations,
\* findSuitableModels returns no model of a provider that is marked
\* unavailable or whose counter has limit > 0 and used >= limit; a provider
\* left out because it is exhausted is returned again, if it qualifies, once
\* resetQuota has set its used back below the limit.
C27_OnlyUsableProvidersMatched ==
    matches.returned
        => /\ \A i \in 1..Len(matches.list) : UsableAtCall(matches.list[i].provider)
           /\ \A k \in CacheKeys :
                 (/\ UsableAtCall(k[1])
                  /\ \/ Len(matches.preferredTiers) = 0
                     \/ Includes(matches.preferredTiers, TierOf(registry[k[1]]))
                  /\ cache[k].cached
                  /\ ScoreAtLeast(scoreModelForTask(cache[k].scores, matches.task),
                                  matches.task.qualityThreshold))
                    => Returned(k[1], k[2])

\* anthropic reached its limit through recorded usage, was reset, and its
\* models are returned again
C27_Witness ==
    /\ matches.returned
    /\ \E m \in {"claude-haiku-4-5"} : Returned("anthropic", m)
    /\ matches.quotas["anthropic"].lastReset > 0
    /\ matches.quotas["anthropic"].limit > 0
    /\ ledger.quotas0["anthropic"].used
          + SumTokens(SelectSeq(ledger.appended,
                                LAMBDA r : r.timestamp
                                              < matches.quotas["anthropic"].lastReset),
                      "anthropic")
          >= matches.quotas["anthropic"].limit

\* the counter of provider p has limit 0
Unbounded(p) == quotas[p].tracked /\ quotas[p].limit = 0

\* C29: a provider whose counter has limit = 0 is treated as unbounded in
\* every reachable state: getAvailable keeps it while it is marked available,
\* checkThresholds raises no notification for it, and predict never reports
\* it as exhausted (willExhaust with zero hours until exhaustion).
C29_LimitZeroIsUnbounded ==
    [][\A p \in Providers :
          (quotas'[p].tracked /\ quotas'[p].limit = 0)
              => /\ registry'[p].isAvailable
                      => \E i \in 1..Len(getAvailable(registry', quotas')) :
                             getAvailable(registry', quotas')[i] = p
                 /\ notification'.provider # p
                 /\ (prediction' # prediction /\ prediction'.provider = p)
                      => ~(prediction'.willExhaust /\ prediction'.hasTime
                              /\ prediction'.hoursNum = 0)]_vars

\* getAvailable and checkThresholds alone do treat limit 0 as unbounded
LimitZeroKeptAvailableAndSilent ==
    \A p \in Providers :
        Unbounded(p)
            => /\ registry[p].isAvailable
                    => \E i \in 1..Len(getAvailable(registry, quotas)) :
                           getAvailable(registry, quotas)[i] = p
               /\ notification.provider # p

\* the change_model actions generatePlan emits on the current stores
ChangeModelActions == SelectSeq(generatePlan(CurStore), LAMBDA a : a.type = "change_model")

\* every change_model action of the plan changes the model
ChangeModelChanges ==
    \A i \in 1..Len(ChangeModelActions) :
        ChangeModelActions[i].from # ChangeModelActions[i].to

\* generatePlan emits no change_model action and a cycle leaves the stores
\* as they are
AutoQuiescent == Len(ChangeModelActions) = 0 /\ StoreAfterCycle(CurStore) = CurStore

\* C30: every change_model action emitted by generatePlan has changes.from
\* different from changes.to, and the repeated cycle of generatePlan and live
\* applyPlan of the reversible actions on a fixed set of jobs and agents
\* reaches, after finitely many cycles, a state in which generatePlan emits
\* no change_model action and the stores stop changing.
C30_DowngradesReachFixpoint == []ChangeModelChanges /\ <>[]AutoQuiescent

\* the stores themselves do stop changing
StoresStopChanging == <>[](StoreAfterCycle(CurStore) = CurStore)

\* a change_model action without effect is emitted only at the bottom of the
\* downgrade chain
NoEffectOnlyAtBottom ==
    \A i \in 1..Len(ChangeModelActions) :
        ChangeModelActions[i].from = ChangeModelActions[i].to
            => ChangeModelActions[i].to = "gemini-2.5-flash-lite"

====
